---- MODULE Spec2Model ----
(***************************************************************************)
(* Model of the streaming engine of torrent-streamer (main process):       *)
(* the sliding-window scheduler, the raw HTTP range endpoint, the seek     *)
(* handler and the add / start / select-file / stop control surface.       *)
(*                                                                         *)
(* Units.  Byte quantities are counted in MiB (1 = 1024 * 1024 bytes), so  *)
(* MAX_BUFFER_SIZE_MB * 1024 * 1024 is MAX_BUFFER_SIZE_MB here.  Rates and *)
(* other JavaScript floating-point values that are not integers are exact  *)
(* rationals <<n, d>> with d > 0.  Playback times are whole seconds.       *)
(***************************************************************************)
EXTENDS Integers, Naturals, Sequences, FiniteSets, TLC

\* --------------------------------------------------------------------------
\* CONFIGURATION (program constants)
\* --------------------------------------------------------------------------
MAX_BUFFER_SIZE_MB == 70

BUFFER_BEHIND_SECONDS == 10

HARD_LIMIT_BUFFER_MB == 75

\* --------------------------------------------------------------------------
\* Bounds of the model
\* --------------------------------------------------------------------------
\* Number of times the bitrate estimator may be updated in one behaviour.
MaxBitrateUpdates == 1

\* Number of requests the remux endpoint serves in one behaviour.
MaxRemuxRequests == 3

\* Number of duration-probe chains that may be pending at once.
MaxDurationProbes == 2

NULL == "null"

\* ffmpegCommand when it holds no child (children are numbered from 1)
NoCommand == 0

\* parseInt of a token that is no number.  The tokens of a Range header are
\* split at '-', so a parsed number is never negative.
NaN == 0 - 1

\* --------------------------------------------------------------------------
\* Rationals <<n, d>>, d > 0
\* --------------------------------------------------------------------------
RECURSIVE Gcd(_, _)
Gcd(a, b) == IF b = 0 THEN a ELSE Gcd(b, a % b)

Abs(x) == IF x < 0 THEN 0 - x ELSE x

Rat(n, d) ==
    LET g == Gcd(Abs(n), d) IN IF g = 0 THEN <<0, 1>> ELSE <<n \div g, d \div g>>

RLe(a, b) == a[1] * b[2] <= b[1] * a[2]

RLt(a, b) == a[1] * b[2] < b[1] * a[2]

RMin(a, b) == IF RLe(a, b) THEN a ELSE b

\* Math.ceil(n / d) and Math.floor(n / d) for d > 0
Ceil(n, d) == 0 - ((0 - n) \div d)

Floor(n, d) == n \div d

\* Math.round(n / d) = floor(n / d + 1/2)
Round(n, d) == (2 * n + d) \div (2 * d)

Min(a, b) == IF a <= b THEN a ELSE b

Max(a, b) == IF a >= b THEN a ELSE b

\* --------------------------------------------------------------------------
\* The torrents the engine can be given (metadata as the swarm reports it)
\* --------------------------------------------------------------------------
Torrents == {"T1", "T2", "T3", "T4", "T5", "T6", "T7", "T8"}

\* torrent.pieceLength, in MiB
PieceLength(t) ==
    CASE t = "T1" -> 32 [] t = "T2" -> 16 [] t = "T3" -> 1 [] t = "T5" -> 16
      [] t = "T6" -> 16 [] t = "T7" -> 16 [] t = "T8" -> 4 [] OTHER -> 1

\* torrent.files: index -> {name, offset, length}.  Of a name the model keeps
\* ext, the value of name.toLowerCase().split('.').pop(): the text after the
\* last dot, or the whole name when it has no dot.
Files(t) ==
    CASE t = "T1" -> (0 :> [ext |-> "mp4", offset |-> 0,   length |-> 150] @@
                      1 :> [ext |-> "txt", offset |-> 150, length |-> 10])
      [] t = "T2" -> (0 :> [ext |-> "iso", offset |-> 0,   length |-> 48] @@
                      1 :> [ext |-> "mkv", offset |-> 48,  length |-> 40])
      [] t = "T3" -> (0 :> [ext |-> "mp4", offset |-> 0,    length |-> 8192] @@
                      1 :> [ext |-> "mp4", offset |-> 8192, length |-> 100])
      [] t = "T5" -> (0 :> [ext |-> "constructor", offset |-> 0,  length |-> 48] @@
                      1 :> [ext |-> "mp4",         offset |-> 48, length |-> 32])
      [] t = "T6" -> (0 :> [ext |-> "txt", offset |-> 0,  length |-> 16] @@
                      1 :> [ext |-> "iso", offset |-> 16, length |-> 48])
      [] t = "T7" -> (0 :> [ext |-> "mp4", offset |-> 0,  length |-> 2048])
      [] t = "T8" -> (0 :> [ext |-> "mp4", offset |-> 0,  length |-> 61440])
      [] OTHER    -> (0 :> [ext |-> "mkv", offset |-> 0,    length |-> 40])

FileIndexes(t) == DOMAIN Files(t)

TorrentLength(t) ==
    LET last == CHOOSE i \in FileIndexes(t) : \A j \in FileIndexes(t) : j <= i
    IN  Files(t)[last].offset + Files(t)[last].length

\* torrent.pieces.length
TotalPieces(t) == Ceil(TorrentLength(t), PieceLength(t))

\* length of the buffer stored for piece i (the last piece may be short)
ChunkLength(t, i) ==
    IF i = TotalPieces(t) - 1
    THEN TorrentLength(t) - i * PieceLength(t)
    ELSE PieceLength(t)

\* a file object: the torrent it belongs to and its index in torrent.files
FileRefs == {<<t, i>> : t \in Torrents, i \in 0..1}

\* the values of a variable that holds no object
NoFile == <<>>

NoConfig == [tier |-> "none"]

NoBufferInfo == [qualityTier |-> "none"]

NoRange == <<>>

NoStream == [state |-> "none"]

NoResponse == [status |-> 0]

FileOf(ref) == Files(ref[1])[ref[2]]

\* --------------------------------------------------------------------------
\* UTILITY FUNCTIONS
\* --------------------------------------------------------------------------
\* the keys of VIDEO_MIME_TYPES
VideoExtensions ==
    {"mp4", "m4v", "webm", "mkv", "mov", "avi", "wmv", "asf", "flv", "mpg",
     "mpeg", "mpe", "m2v", "ts", "m2ts", "mts", "3gp", "3g2", "ogv", "ogg",
     "vob", "divx", "xvid", "rm", "rmvb"}

\* the lower-case names that every object inherits from Object.prototype
InheritedKeys == {"constructor", "__proto__"}

\* ext in VIDEO_MIME_TYPES: the in operator also finds inherited properties
isVideoFile(ext) == ext \in VideoExtensions \cup InheritedKeys

needsTranscoding(ext) ==
    ext \in {"mkv", "avi", "wmv", "flv", "ts", "m2ts", "vob", "rm", "rmvb"}

\* fileSizeGB > 30, > 15, > 5 with fileSizeGB = fileSizeBytes / 2^30
detectQualityTier(fileSizeBytes) ==
    IF fileSizeBytes > 30 * 1024 THEN "4K"
    ELSE IF fileSizeBytes > 15 * 1024 THEN "1080p_high"
    ELSE IF fileSizeBytes > 5 * 1024 THEN "1080p"
    ELSE "720p"

BUFFER_CONFIG(tier) ==
    CASE tier = "4K"         -> [maxBufferSeconds |-> 45,  criticalBufferSeconds |-> 5]
      [] tier = "1080p_high" -> [maxBufferSeconds |-> 60,  criticalBufferSeconds |-> 8]
      [] tier = "1080p"      -> [maxBufferSeconds |-> 90,  criticalBufferSeconds |-> 10]
      [] OTHER               -> [maxBufferSeconds |-> 120, criticalBufferSeconds |-> 15]

\* The thresholds 10e9, 5e9, 2e9 and 500e6 bytes are 9536.7, 4768.4, 1907.3 and
\* 476.8 MiB; a size that is a whole number of MiB exceeds one of them exactly
\* when it exceeds its integer part.
EstimatedDuration(fileSizeBytes) ==
    IF fileSizeBytes > 9536 THEN 7200
    ELSE IF fileSizeBytes > 4768 THEN 5400
    ELSE IF fileSizeBytes > 1907 THEN 3600
    ELSE IF fileSizeBytes > 476 THEN 2400
    ELSE 1200

getBufferConfig(fileSizeBytes) ==
    LET tier == detectQualityTier(fileSizeBytes)
        config == BUFFER_CONFIG(tier)
        estimatedDuration == EstimatedDuration(fileSizeBytes)
        \* every byte amount below is a rational over the denominator estimatedDuration
        bytesPerSecond == <<fileSizeBytes, estimatedDuration>>
        maxBufferBytes == MAX_BUFFER_SIZE_MB
        desiredAheadN == config.maxBufferSeconds * fileSizeBytes
        behindN == BUFFER_BEHIND_SECONDS * fileSizeBytes
        actualAheadN == Min(desiredAheadN, maxBufferBytes * estimatedDuration - behindN)
    IN  [tier |-> tier,
         bytesPerSecond |-> Rat(bytesPerSecond[1], bytesPerSecond[2]),
         behindBytes |-> Rat(behindN, estimatedDuration),
         aheadBytes |-> Rat(actualAheadN, estimatedDuration),
         behindSeconds |-> BUFFER_BEHIND_SECONDS,
         \* actualAheadBytes / bytesPerSecond
         aheadSeconds |-> Rat(actualAheadN, fileSizeBytes),
         criticalBufferSeconds |-> config.criticalBufferSeconds,
         estimatedDuration |-> estimatedDuration]

\* --------------------------------------------------------------------------
\* STATE
\* --------------------------------------------------------------------------
VARIABLES
    \* module state of the engine
    currentTorrent,          \* the torrent of the session, or NULL
    currentFile,             \* the file being streamed (a file object), or NULL
    currentPlaybackTime,     \* last time reported by the player, seconds
    currentPlaybackBytes,    \* start of the last range request (NaN possible)
    estimatedBitrate,        \* observed bytes per second, <<0, 1>> when none
    lastBytePosition,
    lastByteTime,            \* 0: no range request yet; 1: Date.now() of the last one
    slidingWindowInterval,   \* TRUE while the scheduler interval is registered
    statusUpdateInterval,    \* TRUE while the status interval is registered
    ffmpegCommand,           \* the request whose remux child it holds, or NoCommand
    isTranscoding,
    useTranscoding,
    transcodeClientId,       \* number of requests the remux endpoint has served
    children,                \* per remux request: its child, response and input stream
    durationProbes,          \* duration-probe chains started and not yet ended
    actualVideoDuration,     \* duration shown to the player, seconds
    \* the torrent client and its torrent objects
    clientTorrents,          \* torrents in the client (added, not removed)
    metadata,                \* torrents of the client whose metadata is known
    selected,                \* per torrent: indexes of the selected files
    bitfield,                \* per torrent: pieces whose have-bit is set
    chunks,                  \* per torrent: pieces with bytes in the store
    enginePaused,            \* per torrent: torrent.paused
    softPaused,              \* per torrent: torrent._paused
    hardPaused,              \* per torrent: torrent._hardPaused
    bufferConfig,            \* per torrent: torrent._bufferConfig, or NULL
    bufferInfo,              \* per torrent: torrent._bufferInfo, or NULL
    critical,                \* per torrent: last range given to torrent.critical
    \* asynchronous work in flight
    pendingAdds,             \* client.add callbacks not yet run
    pendingRemovals,         \* client.remove callbacks not yet run
    stream,                  \* the read stream of the last GET range request
    response,                \* the last response of the raw endpoint
    \* observation
    bitrateUpdates,          \* number of estimator updates so far
    tickLog,                 \* what the last ticks observed and decided
    lastOp                   \* the operation that ran last

engineVars ==
    <<currentTorrent, currentFile, currentPlaybackTime, currentPlaybackBytes,
      estimatedBitrate, lastBytePosition, lastByteTime, slidingWindowInterval,
      statusUpdateInterval, ffmpegCommand, isTranscoding, useTranscoding,
      transcodeClientId, children, durationProbes, actualVideoDuration>>

torrentVars ==
    <<clientTorrents, metadata, selected, bitfield, chunks, enginePaused,
      softPaused, hardPaused, bufferConfig, bufferInfo, critical>>

asyncVars == <<pendingAdds, pendingRemovals, stream, response>>

vars == <<engineVars, torrentVars, asyncVars, bitrateUpdates, tickLog, lastOp>>

Init ==
    /\ currentTorrent = NULL
    /\ currentFile = NoFile
    /\ currentPlaybackTime = 0
    /\ currentPlaybackBytes = 0
    /\ estimatedBitrate = <<0, 1>>
    /\ lastBytePosition = 0
    /\ lastByteTime = 0
    /\ slidingWindowInterval = FALSE
    /\ statusUpdateInterval = FALSE
    /\ ffmpegCommand = NoCommand
    /\ isTranscoding = FALSE
    /\ useTranscoding = FALSE
    /\ transcodeClientId = 0
    /\ children = <<>>
    /\ durationProbes = 0
    /\ actualVideoDuration = 0
    /\ clientTorrents = {}
    /\ metadata = {}
    /\ selected = [t \in Torrents |-> {}]
    /\ bitfield = [t \in Torrents |-> {}]
    /\ chunks = [t \in Torrents |-> {}]
    /\ enginePaused = [t \in Torrents |-> FALSE]
    /\ softPaused = [t \in Torrents |-> FALSE]
    /\ hardPaused = [t \in Torrents |-> FALSE]
    /\ bufferConfig = [t \in Torrents |-> NoConfig]
    /\ bufferInfo = [t \in Torrents |-> NoBufferInfo]
    /\ critical = [t \in Torrents |-> NoRange]
    /\ pendingAdds = {}
    /\ pendingRemovals = {}
    /\ stream = NoStream
    /\ response = NoResponse
    /\ bitrateUpdates = 0
    /\ tickLog = <<>>
    /\ lastOp = "init"

\* --------------------------------------------------------------------------
\* SLIDING WINDOW BUFFER MANAGEMENT
\* --------------------------------------------------------------------------
\* torrent._bufferConfig || getBufferConfig(file.length)
BufferConfigOf(torrent, file) ==
    IF bufferConfig[torrent] = NoConfig
    THEN getBufferConfig(FileOf(file).length)
    ELSE bufferConfig[torrent]

\* estimatedBitrate > 0 ? estimatedBitrate : bufferConfig.bytesPerSecond
TickBytesPerSecond(torrent, file) ==
    IF estimatedBitrate[1] > 0
    THEN estimatedBitrate
    ELSE BufferConfigOf(torrent, file).bytesPerSecond

\* the read head of the tick, a byte offset in the file
CurrentByte(torrent, file) ==
    LET fileOffset == FileOf(file).offset
        bytesPerSecond == TickBytesPerSecond(torrent, file)
        raw == IF currentPlaybackBytes > 0
               THEN currentPlaybackBytes - fileOffset
               ELSE IF currentPlaybackTime > 0
                    THEN Floor(currentPlaybackTime * bytesPerSecond[1], bytesPerSecond[2])
                    ELSE 0
    IN  Max(0, Min(raw, FileOf(file).length))

\* the piece window the tick computes around the read head
SlidingWindow(torrent, file) ==
    LET pieceLength == PieceLength(torrent)
        fileOffset == FileOf(file).offset
        config == BufferConfigOf(torrent, file)
        bytesPerSecond == TickBytesPerSecond(torrent, file)
        currentPiece == Floor(fileOffset + CurrentByte(torrent, file), pieceLength)
        filePieceStart == Floor(fileOffset, pieceLength)
        filePieceEnd == Ceil(fileOffset + FileOf(file).length, pieceLength) - 1
        \* maxBufferBytes * 0.1 and maxBufferBytes * 0.9
        behindBytes == RMin(<<BUFFER_BEHIND_SECONDS * bytesPerSecond[1], bytesPerSecond[2]>>,
                            <<MAX_BUFFER_SIZE_MB, 10>>)
        aheadBytes == RMin(<<9 * MAX_BUFFER_SIZE_MB, 10>>, config.aheadBytes)
        piecesBehind == Ceil(behindBytes[1], behindBytes[2] * pieceLength)
        piecesAhead == Ceil(aheadBytes[1], aheadBytes[2] * pieceLength)
    IN  [currentPiece |-> currentPiece,
         filePieceStart |-> filePieceStart,
         filePieceEnd |-> filePieceEnd,
         windowStart |-> Max(filePieceStart, currentPiece - piecesBehind),
         windowEnd |-> Min(filePieceEnd, currentPiece + piecesAhead)]

\* sum of chunks[i].length over the stored chunks
StoredBytes(torrent, stored) ==
    LET RECURSIVE Sum(_)
        Sum(S) == IF S = {} THEN 0
                  ELSE LET i == CHOOSE j \in S : TRUE
                       IN  ChunkLength(torrent, i) + Sum(S \ {i})
    IN  Sum(stored)

\* "Delete ALL pieces BEFORE the window"
EvictBefore(stored, windowStart) == {i \in stored : ~(i < windowStart)}

\* a cleanup loop that starts one piece late: for (let i = windowEnd + 2; ...)
EvictAfterOffByOne(stored, windowEnd) == {i \in stored : ~(i > windowEnd + 1)}

\* "Delete ALL pieces AFTER the window"
EvictAfter(stored, windowEnd) == {i \in stored : ~(i > windowEnd)}

\* a loop that runs on while the have-bit is false
BufferedEndWhileMissing(torrent, currentPiece, windowEnd) ==
    LET reach == {j \in currentPiece..Min(windowEnd, TotalPieces(torrent) - 1) :
                    \A i \in currentPiece..j : i \notin bitfield[torrent]}
    IN  IF reach = {} THEN currentPiece
        ELSE CHOOSE j \in reach : \A k \in reach : k <= j

\* the loops over torrent.bitfield from currentPiece outwards
BufferedEnd(torrent, currentPiece, windowEnd) ==
    LET reach == {j \in currentPiece..Min(windowEnd, TotalPieces(torrent) - 1) :
                    \A i \in currentPiece..j : i \in bitfield[torrent]}
    IN  IF reach = {} THEN currentPiece
        ELSE CHOOSE j \in reach : \A k \in reach : k <= j

BufferedStart(torrent, currentPiece, windowStart) ==
    LET reach == {j \in Max(windowStart, 0)..currentPiece :
                    \A i \in j..currentPiece : i \in bitfield[torrent]}
    IN  IF reach = {} THEN currentPiece
        ELSE CHOOSE j \in reach : \A k \in reach : j <= k

\* "EMERGENCY: Clear everything except current window"
EmergencyEvict(stored, windowStart, windowEnd) ==
    {i \in stored : ~(i < windowStart \/ i > windowEnd)}

\* the pieces left in the store by one tick
TickEviction(stored, windowStart, windowEnd, overLimit) ==
    LET cleaned == EvictAfter(EvictBefore(stored, windowStart), windowEnd)
    IN  IF overLimit THEN EmergencyEvict(cleaned, windowStart, windowEnd) ELSE cleaned

\* bufferedAheadSeconds = bufferedAheadPieces * pieceLength / bytesPerSecond
BufferedAheadSeconds(torrent, currentPiece, bufferedEnd, bytesPerSecond) ==
    Rat(Max(0, bufferedEnd - currentPiece) * PieceLength(torrent) * bytesPerSecond[2],
        bytesPerSecond[1])

\* targetBufferSeconds = bufferConfig.aheadSeconds || 60
TargetBufferSeconds(config) ==
    IF config.aheadSeconds[1] = 0 THEN <<60, 1>> ELSE config.aheadSeconds

\* a resume threshold equal to the target: no hysteresis
ResumeThresholdAtTarget(targetBufferSeconds) == targetBufferSeconds

\* resumeThreshold = targetBufferSeconds * 0.5
ResumeThreshold(targetBufferSeconds) ==
    <<targetBufferSeconds[1], 2 * targetBufferSeconds[2]>>

\* a tick that only calls file.select() and leaves the other files as they are
TickSelectionKeepsOthers(torrent, file) ==
    [selected EXCEPT ![file[1]] = @ \cup {file[2]}]

\* the selection flags after "deselect all other files" and file.select()
TickSelection(torrent, file) ==
    LET others == [selected EXCEPT ![torrent] =
                       IF file[1] = torrent THEN @ \cap {file[2]} ELSE {}]
    IN  [others EXCEPT ![file[1]] = @ \cup {file[2]}]

\* The calls of a tick that may throw.  deselect, critical, pause and resume
\* each sit in a try of their own; file.select() and torrent.bitfield.get() do
\* not, so a throw there leaves the callback through its outer catch.
NoThrow == "none"

GuardedCalls ==
    {"throw:deselect", "throw:critical", "throw:hardPause", "throw:hardResume",
     "throw:softPause", "throw:softResume"}

UnguardedCalls == {"throw:select", "throw:bitfield"}

\* a callback without inner try blocks: whatever throws ends the tick
EndsTickOnAnyThrow(failing, call) == failing # NoThrow

\* the tick ends at this call because it throws outside an inner try
EndsTickAt(failing, call) == failing = call /\ call \in UnguardedCalls

\* the body of the interval callback of startSlidingWindow; processMemMB is the
\* heap size process.memoryUsage() reports and failing is the call that throws
\* in this run, if any.  The values the callback computes once (its consts) are
\* bound once, by \E over a one-element set.
IntervalCallback(processMemMB, failing) ==
    /\ slidingWindowInterval
    /\ IF currentTorrent = NULL \/ currentFile = NoFile
       THEN /\ failing = NoThrow
            /\ lastOp' = "tickIdle"
            /\ UNCHANGED <<engineVars, torrentVars, asyncVars, bitrateUpdates>>
       ELSE
         \E config \in {BufferConfigOf(currentTorrent, currentFile)} :
         \E bytesPerSecond \in {TickBytesPerSecond(currentTorrent, currentFile)} :
         \E w \in {SlidingWindow(currentTorrent, currentFile)} :
         \E storedChunksBytes \in {StoredBytes(currentTorrent, chunks[currentTorrent])} :
         \E overLimit \in {storedChunksBytes > HARD_LIMIT_BUFFER_MB \/ processMemMB > 500} :
         \E kept \in {TickEviction(chunks[currentTorrent], w.windowStart, w.windowEnd,
                                   overLimit)} :
         \E actualMemoryBytes \in {StoredBytes(currentTorrent, kept)} :
         \E bufferedEnd \in {BufferedEnd(currentTorrent, w.currentPiece, w.windowEnd)} :
         LET torrent == currentTorrent
             file == currentFile
             pieceLength == PieceLength(torrent)
             totalPieces == TotalPieces(torrent)
             currentPiece == w.currentPiece
             criticalEnd == Min(w.windowEnd,
                                currentPiece + Ceil(10 * bytesPerSecond[1],
                                                    bytesPerSecond[2] * pieceLength))
             \* hard pause: try { torrent.pause(); torrent._hardPaused = true }
             tryHardPause == overLimit /\ ~hardPaused[torrent]
             hardPauses == tryHardPause /\ failing # "throw:hardPause"
             hard1 == hardPauses \/ hardPaused[torrent]
             paused1 == hardPauses \/ enginePaused[torrent]
             \* actualMemoryBytes < maxBufferBytes * 0.8
             tryHardResume == hard1 /\ 10 * actualMemoryBytes < 8 * MAX_BUFFER_SIZE_MB
             resumeHard == tryHardResume /\ failing # "throw:hardResume"
             hard2 == hard1 /\ ~resumeHard
             paused2 == paused1 /\ ~resumeHard
             \* contiguous buffer around the read head
             bufferedStart == BufferedStart(torrent, currentPiece, w.windowStart)
             bufferedAheadSeconds ==
                 BufferedAheadSeconds(torrent, currentPiece, bufferedEnd, bytesPerSecond)
             \* soft pause
             targetBufferSeconds == TargetBufferSeconds(config)
             resumeThreshold == ResumeThreshold(targetBufferSeconds)
             isBufferFull == RLe(targetBufferSeconds, bufferedAheadSeconds)
             trySoftPause ==
                 isBufferFull /\ ~softPaused[torrent] /\ ~isTranscoding /\ ~hard2
             trySoftResume ==
                 /\ ~trySoftPause
                 /\ softPaused[torrent]
                 /\ ~hard2
                 /\ (RLt(bufferedAheadSeconds, resumeThreshold) \/ isTranscoding)
             doPause == trySoftPause /\ failing # "throw:softPause"
             doResume == trySoftResume /\ failing # "throw:softResume"
             soft3 == IF doPause THEN TRUE ELSE IF doResume THEN FALSE ELSE softPaused[torrent]
             paused3 == IF doPause THEN TRUE ELSE IF doResume THEN FALSE ELSE paused2
             tryCritical == currentPiece >= 0 /\ currentPiece < totalPieces
             \* the call that throws is one this run makes
             made == CASE failing = "throw:deselect" ->
                            file[1] # torrent \/ FileIndexes(torrent) # {file[2]}
                       [] failing = "throw:critical" -> tryCritical
                       [] failing = "throw:hardPause" -> tryHardPause
                       [] failing = "throw:hardResume" -> tryHardResume
                       [] failing = "throw:softPause" -> trySoftPause
                       [] failing = "throw:softResume" -> trySoftResume
                       [] OTHER -> TRUE
             atSelect == EndsTickAt(failing, "throw:select")
             atBitfield == EndsTickAt(failing, "throw:bitfield")
         IN  /\ made
             /\ selected' = IF failing = "throw:deselect"
                            THEN [selected EXCEPT ![file[1]] = @ \cup {file[2]}]
                            ELSE IF atSelect
                            THEN [selected EXCEPT ![torrent] =
                                      IF file[1] = torrent THEN @ \cap {file[2]} ELSE {}]
                            ELSE TickSelection(torrent, file)
             /\ critical' = IF tryCritical /\ failing # "throw:critical" /\ ~atSelect
                            THEN [critical EXCEPT ![torrent] = <<currentPiece, criticalEnd>>]
                            ELSE critical
             /\ chunks' = IF atSelect THEN chunks ELSE [chunks EXCEPT ![torrent] = kept]
             /\ hardPaused' = IF atSelect THEN hardPaused
                              ELSE [hardPaused EXCEPT ![torrent] = hard2]
             /\ softPaused' = IF atSelect \/ atBitfield THEN softPaused
                              ELSE [softPaused EXCEPT ![torrent] = soft3]
             /\ enginePaused' = IF atSelect THEN enginePaused
                                ELSE IF atBitfield
                                THEN [enginePaused EXCEPT ![torrent] = paused2]
                                ELSE [enginePaused EXCEPT ![torrent] = paused3]
             /\ bufferInfo' = IF atSelect \/ atBitfield THEN bufferInfo
                              ELSE [bufferInfo EXCEPT ![torrent] =
                    [bufferedAheadSeconds |-> Round(bufferedAheadSeconds[1], bufferedAheadSeconds[2]),
                     bufferSizeMB |-> Min(actualMemoryBytes, MAX_BUFFER_SIZE_MB),
                     windowStart |-> w.windowStart,
                     windowEnd |-> w.windowEnd,
                     currentPiece |-> currentPiece,
                     bufferedStart |-> bufferedStart,
                     bufferedEnd |-> bufferedEnd,
                     qualityTier |-> config.tier,
                     paused |-> soft3,
                     hardPaused |-> hard2]]
             /\ lastOp' = IF failing = NoThrow THEN "tick" ELSE failing
             /\ UNCHANGED <<engineVars, clientTorrents, metadata, bitfield, bufferConfig,
                            asyncVars, bitrateUpdates>>

\* a run of the interval callback in which nothing throws
startSlidingWindow(processMemMB) == IntervalCallback(processMemMB, NoThrow)

\* a tick of the scheduler
Tick(processMemMB) == startSlidingWindow(processMemMB) /\ UNCHANGED tickLog

\* a tick of the scheduler in which one call throws
TickThrows(processMemMB, failing) ==
    /\ failing \in GuardedCalls \cup UnguardedCalls
    /\ IntervalCallback(processMemMB, failing)
    /\ UNCHANGED tickLog

\* --------------------------------------------------------------------------
\* The torrent client (engine side of client.add / client.remove)
\* --------------------------------------------------------------------------
\* client.add(input, opts, callback): a new torrent object enters the client and
\* its callback waits for the metadata.  The client holds a torrent only once: a
\* duplicate is refused with an 'error' event of the client, which runs the
\* errorHandler of every add / start that is still unresolved.
ClientAdd(kind, t) ==
    IF t \in clientTorrents
    THEN /\ pendingAdds' = {[p EXCEPT !.resolved = TRUE] : p \in pendingAdds}
         /\ UNCHANGED torrentVars
    ELSE /\ clientTorrents' = clientTorrents \cup {t}
         /\ pendingAdds' = pendingAdds \cup {[torrent |-> t, kind |-> kind, resolved |-> FALSE]}
         /\ selected' = [selected EXCEPT ![t] = {}]
         /\ bitfield' = [bitfield EXCEPT ![t] = {}]
         /\ chunks' = [chunks EXCEPT ![t] = {}]
         /\ enginePaused' = [enginePaused EXCEPT ![t] = FALSE]
         /\ softPaused' = [softPaused EXCEPT ![t] = FALSE]
         /\ hardPaused' = [hardPaused EXCEPT ![t] = FALSE]
         /\ bufferConfig' = [bufferConfig EXCEPT ![t] = NoConfig]
         /\ bufferInfo' = [bufferInfo EXCEPT ![t] = NoBufferInfo]
         /\ critical' = [critical EXCEPT ![t] = NoRange]
         /\ UNCHANGED metadata

\* client.remove(infoHash, {destroyStore: true}, callback) of a torrent the client
\* holds: the torrent leaves the client, its store is destroyed and a read stream
\* open on one of its files is closed; the callback runs later.  (For a torrent
\* the client does not hold, remove throws.)
ClientRemove(t, continuation) ==
    /\ clientTorrents' = clientTorrents \ {t}
    /\ stream' = IF stream # NoStream /\ stream.file[1] = t THEN NoStream ELSE stream
    /\ metadata' = metadata \ {t}
    /\ selected' = [selected EXCEPT ![t] = {}]
    /\ chunks' = [chunks EXCEPT ![t] = {}]
    /\ pendingRemovals' = pendingRemovals \cup {[victim |-> t, then |-> continuation]}
    /\ UNCHANGED <<bitfield, enginePaused, softPaused, hardPaused, bufferConfig,
                   bufferInfo, critical>>

\* ffmpegCommand.kill('SIGKILL') on child k: a child that is alive is sent the
\* signal; its 'error' event follows later
KillChild(k) ==
    IF k # NoCommand /\ children[k].proc \in {"created", "running"}
    THEN [children EXCEPT ![k].proc = "killed"]
    ELSE children

resetState ==
    /\ currentTorrent' = NULL
    /\ currentFile' = NoFile
    /\ currentPlaybackTime' = 0
    /\ currentPlaybackBytes' = 0
    /\ estimatedBitrate' = <<0, 1>>
    /\ lastBytePosition' = 0
    /\ lastByteTime' = 0
    /\ useTranscoding' = FALSE

playbackVars ==
    <<currentTorrent, currentFile, currentPlaybackTime, currentPlaybackBytes,
      estimatedBitrate, lastBytePosition, lastByteTime, useTranscoding>>

perTorrentVars ==
    <<selected, bitfield, chunks, enginePaused, softPaused, hardPaused,
      bufferConfig, bufferInfo, critical>>

\* --------------------------------------------------------------------------
\* IPC HANDLERS
\* --------------------------------------------------------------------------
\* the inputs that consist of white space only
Blank == {"", " ", "  "}

\* String.prototype.trim on the inputs of the model: a torrent's name has no
\* white space around it
trim(s) == IF s \in Blank THEN "" ELSE s

\* a validation that does not trim
InvalidInputUntrimmed(magnetOrPath) == magnetOrPath = NULL \/ magnetOrPath = ""

\* !magnetOrPath?.trim(): a missing, empty or blank input
InvalidInput(magnetOrPath) == magnetOrPath = NULL \/ trim(magnetOrPath) = ""

\* The synchronous part of torrent:add and torrent:start, which is the same in
\* both: validation, cleanup() and, when cleanup resolves at once, client.add.
\* magnetOrPath is a torrent, NULL, or an empty or blank string.
AddOrStart(kind, magnetOrPath) ==
    IF InvalidInput(magnetOrPath)
    THEN /\ lastOp' = "rejected"
         /\ UNCHANGED <<engineVars, torrentVars, asyncVars, bitrateUpdates, tickLog>>
    ELSE /\ children' = KillChild(ffmpegCommand)
         /\ ffmpegCommand' = NoCommand
         /\ lastOp' = kind
         /\ UNCHANGED <<isTranscoding, transcodeClientId, durationProbes, actualVideoDuration, response,
                        bitrateUpdates, tickLog>>
         /\ IF currentTorrent # NULL
            THEN /\ slidingWindowInterval' = FALSE
                 /\ statusUpdateInterval' = FALSE
                 /\ IF currentTorrent \in clientTorrents
                    THEN /\ ClientRemove(currentTorrent,
                                         [kind |-> kind, input |-> magnetOrPath])
                         /\ UNCHANGED <<playbackVars, pendingAdds>>
                    ELSE \* client.remove throws: catch { resetState(); resolveCleanup() }
                         /\ resetState
                         /\ ClientAdd(kind, magnetOrPath)
                         /\ UNCHANGED <<pendingRemovals, stream>>
            ELSE /\ ClientAdd(kind, magnetOrPath)
                 /\ UNCHANGED <<playbackVars, slidingWindowInterval,
                                statusUpdateInterval, pendingRemovals, stream>>

TorrentAdd(magnetOrPath) == AddOrStart("add", magnetOrPath)

TorrentStart(magnetOrPath) == AddOrStart("start", magnetOrPath)

\* the callback of client.remove
RemovalDone(r) ==
    /\ r \in pendingRemovals
    /\ resetState
    /\ lastOp' = "removed"
    /\ UNCHANGED <<slidingWindowInterval, statusUpdateInterval, ffmpegCommand,
                   isTranscoding, transcodeClientId, children, durationProbes, actualVideoDuration,
                   stream, response, bitrateUpdates, tickLog>>
    /\ pendingRemovals' = pendingRemovals \ {r}
    /\ IF r.then = [kind |-> "stop"]
       THEN UNCHANGED <<torrentVars, pendingAdds>>
       ELSE ClientAdd(r.then.kind, r.then.input)

\* setTimeout(..., CONNECTION_TIMEOUT) of add / start
ConnectionTimeout(p) ==
    /\ p \in pendingAdds
    /\ ~p.resolved
    /\ pendingAdds' = (pendingAdds \ {p}) \cup {[p EXCEPT !.resolved = TRUE]}
    /\ lastOp' = "timeout"
    /\ UNCHANGED <<engineVars, torrentVars, pendingRemovals, stream, response,
                   bitrateUpdates, tickLog>>

\* [...files].sort((a, b) => b.length - a.length), first video file, else the
\* largest file, else null
findBestVideoFile(t) ==
    LET Before(i, j) == \/ Files(t)[i].length > Files(t)[j].length
                        \/ (Files(t)[i].length = Files(t)[j].length /\ i < j)
        First(S) == CHOOSE i \in S : \A j \in S \ {i} : Before(i, j)
        videos == {i \in FileIndexes(t) : isVideoFile(Files(t)[i].ext)}
    IN  IF videos # {} THEN <<t, First(videos)>>
        ELSE IF FileIndexes(t) # {} THEN <<t, First(FileIndexes(t))>>
        ELSE NoFile

\* the range given to torrent.critical when a file starts streaming
QuickStartRange(torrent, file) ==
    LET pieceLength == PieceLength(torrent)
        config == getBufferConfig(FileOf(file).length)
        startPiece == Floor(FileOf(file).offset, pieceLength)
        quickStartPieces ==
            Min(30, Ceil(config.criticalBufferSeconds * config.bytesPerSecond[1],
                         config.bytesPerSecond[2] * pieceLength))
    IN  <<startPiece, Min(startPiece + quickStartPieces, TotalPieces(torrent) - 1)>>

\* The metadata of torrent t arrives: the engine selects the whole torrent, as it
\* does for every new torrent, and runs the callback given to client.add.
MetadataReady(p) ==
    LET t == p.torrent
        videoFile == findBestVideoFile(t)
    IN
    /\ p \in pendingAdds
    /\ t \in clientTorrents
    /\ t \notin metadata
    /\ metadata' = metadata \cup {t}
    /\ pendingAdds' = pendingAdds \ {p}
    /\ UNCHANGED <<clientTorrents, bitfield, chunks, enginePaused, hardPaused, bufferInfo,
                   pendingRemovals, stream, response, bitrateUpdates, tickLog,
                   ffmpegCommand, isTranscoding, transcodeClientId, children,
                   durationProbes, actualVideoDuration, currentPlaybackTime, currentPlaybackBytes,
                   estimatedBitrate, lastBytePosition, lastByteTime>>
    /\ IF p.resolved
       THEN \* if (resolved) return
            /\ selected' = [selected EXCEPT ![t] = FileIndexes(t)]
            /\ lastOp' = "lateMetadata"
            /\ UNCHANGED <<currentTorrent, currentFile, useTranscoding, softPaused,
                           bufferConfig, critical, slidingWindowInterval,
                           statusUpdateInterval>>
       ELSE /\ currentTorrent' = t
            /\ IF p.kind = "add"
               THEN /\ selected' = [selected EXCEPT ![t] = {}]
                    /\ softPaused' = [softPaused EXCEPT ![t] = FALSE]
                    /\ lastOp' = "addReady"
                    /\ UNCHANGED <<currentFile, useTranscoding, bufferConfig, critical,
                                   slidingWindowInterval, statusUpdateInterval>>
               ELSE IF videoFile = NoFile
               THEN \* reject(new Error('No video file found'))
                    /\ selected' = [selected EXCEPT ![t] = {}]
                    /\ lastOp' = "rejected"
                    /\ UNCHANGED <<currentFile, useTranscoding, softPaused, bufferConfig,
                                   critical, slidingWindowInterval, statusUpdateInterval>>
               ELSE /\ currentFile' = videoFile
                    /\ useTranscoding' = needsTranscoding(FileOf(videoFile).ext)
                    /\ selected' = [selected EXCEPT ![t] = {videoFile[2]}]
                    /\ critical' = [critical EXCEPT ![t] = QuickStartRange(t, videoFile)]
                    /\ bufferConfig' = [bufferConfig EXCEPT ![t] =
                                            getBufferConfig(FileOf(videoFile).length)]
                    /\ slidingWindowInterval' = TRUE
                    /\ statusUpdateInterval' = TRUE
                    /\ lastOp' = "startReady"
                    /\ UNCHANGED softPaused

\* torrent:select-file
SelectFile(fileIndex) ==
    IF currentTorrent = NULL \/ fileIndex \notin FileIndexes(currentTorrent)
    THEN /\ lastOp' = "rejected"
         /\ UNCHANGED <<engineVars, torrentVars, asyncVars, bitrateUpdates, tickLog>>
    ELSE LET torrent == currentTorrent
             file == <<torrent, fileIndex>>
         IN  /\ durationProbes < MaxDurationProbes
             /\ selected' = [selected EXCEPT ![torrent] = {fileIndex}]
             /\ currentFile' = file
             /\ useTranscoding' = needsTranscoding(FileOf(file).ext)
             /\ critical' = [critical EXCEPT ![torrent] = QuickStartRange(torrent, file)]
             /\ bufferConfig' = [bufferConfig EXCEPT ![torrent] =
                                     getBufferConfig(FileOf(file).length)]
             /\ softPaused' = [softPaused EXCEPT ![torrent] = FALSE]
             /\ enginePaused' = [enginePaused EXCEPT ![torrent] = FALSE]
             /\ slidingWindowInterval' = TRUE
             /\ statusUpdateInterval' = TRUE
             /\ durationProbes' = durationProbes + 1
             /\ actualVideoDuration' = getBufferConfig(FileOf(file).length).estimatedDuration
             /\ lastOp' = "selectFile"
             /\ UNCHANGED <<currentTorrent, currentPlaybackTime, currentPlaybackBytes,
                            estimatedBitrate, lastBytePosition, lastByteTime,
                            ffmpegCommand, isTranscoding, transcodeClientId, children,
                            clientTorrents, metadata,
                            bitfield, chunks, hardPaused, bufferInfo, asyncVars,
                            bitrateUpdates, tickLog>>

\* A chain of tryGetDuration attempts ends without a duration: the third
\* attempt failed too.
DurationProbeEnds ==
    /\ durationProbes > 0
    /\ durationProbes' = durationProbes - 1
    /\ lastOp' = "probeEnds"
    /\ UNCHANGED <<currentTorrent, currentFile, currentPlaybackTime, currentPlaybackBytes,
                   estimatedBitrate, lastBytePosition, lastByteTime,
                   slidingWindowInterval, statusUpdateInterval, ffmpegCommand,
                   isTranscoding, useTranscoding, transcodeClientId, children,
                   actualVideoDuration, torrentVars, asyncVars, bitrateUpdates, tickLog>>

\* An attempt of tryGetDuration gets a duration > 0 from the probe, which ends
\* its chain: if (duration > 0) { actualVideoDuration = duration }
tryGetDuration(duration) ==
    /\ durationProbes > 0
    /\ duration > 0
    /\ durationProbes' = durationProbes - 1
    /\ actualVideoDuration' = duration
    /\ lastOp' = "probed"
    /\ UNCHANGED <<currentTorrent, currentFile, currentPlaybackTime, currentPlaybackBytes,
                   estimatedBitrate, lastBytePosition, lastByteTime,
                   slidingWindowInterval, statusUpdateInterval, ffmpegCommand,
                   isTranscoding, useTranscoding, transcodeClientId, children,
                   torrentVars, asyncVars, bitrateUpdates, tickLog>>

\* torrent:stop
TorrentStop ==
    /\ children' = KillChild(ffmpegCommand)
    /\ ffmpegCommand' = NoCommand
    /\ slidingWindowInterval' = FALSE
    /\ statusUpdateInterval' = FALSE
    /\ lastOp' = "stop"
    /\ UNCHANGED <<isTranscoding, transcodeClientId, durationProbes, actualVideoDuration, pendingAdds,
                   response, bitrateUpdates, tickLog>>
    /\ IF currentTorrent # NULL
       THEN IF currentTorrent \in clientTorrents
            THEN /\ ClientRemove(currentTorrent, [kind |-> "stop"])
                 /\ UNCHANGED playbackVars
            ELSE \* client.remove throws: catch { resetState(); resolve() }
                 /\ resetState
                 /\ UNCHANGED <<torrentVars, pendingRemovals, stream>>
       ELSE UNCHANGED <<playbackVars, torrentVars, pendingRemovals, stream>>

\* a seek path that marks 10 seconds instead of 15, as the tick does
SeekCriticalRangeTenSeconds(torrent, file, time) ==
    LET pieceLength == PieceLength(torrent)
        fileOffset == FileOf(file).offset
        bytesPerSecond == BufferConfigOf(torrent, file).bytesPerSecond
        seekBytePos == Floor(time * bytesPerSecond[1], bytesPerSecond[2])
        seekPiece == Floor(fileOffset + seekBytePos, pieceLength)
        criticalPieces == Min(20, Ceil(10 * bytesPerSecond[1],
                                       bytesPerSecond[2] * pieceLength))
        endPiece == Min(seekPiece + criticalPieces, TotalPieces(torrent) - 1)
    IN  <<seekPiece, endPiece>>

\* the range the seek path of torrent:update-playback gives to torrent.critical
SeekCriticalRange(torrent, file, time) ==
    LET pieceLength == PieceLength(torrent)
        fileOffset == FileOf(file).offset
        bytesPerSecond == BufferConfigOf(torrent, file).bytesPerSecond
        seekBytePos == Floor(time * bytesPerSecond[1], bytesPerSecond[2])
        seekPiece == Floor(fileOffset + seekBytePos, pieceLength)
        criticalPieces == Min(20, Ceil(15 * bytesPerSecond[1],
                                       bytesPerSecond[2] * pieceLength))
        endPiece == Min(seekPiece + criticalPieces, TotalPieces(torrent) - 1)
    IN  <<seekPiece, endPiece>>

\* a seek test that counts a jump of exactly 5 seconds as a seek
wasSeekFromFive(time) == Abs(time - currentPlaybackTime) >= 5

\* wasSeek = Math.abs(time - currentPlaybackTime) > 5
wasSeek(time) == Abs(time - currentPlaybackTime) > 5

\* torrent:update-playback
UpdatePlayback(time) ==
    LET torrent == currentTorrent
    IN
    /\ currentPlaybackTime' = time
    /\ UNCHANGED <<currentTorrent, currentFile, currentPlaybackBytes, estimatedBitrate,
                   lastBytePosition, lastByteTime, slidingWindowInterval,
                   statusUpdateInterval, ffmpegCommand, isTranscoding, useTranscoding,
                   transcodeClientId, children, durationProbes, actualVideoDuration,
                   clientTorrents, metadata, selected, bitfield, chunks, bufferConfig,
                   bufferInfo, asyncVars, bitrateUpdates, tickLog>>
    /\ IF wasSeek(time) /\ currentTorrent # NULL /\ currentFile # NoFile
       THEN /\ hardPaused' = [hardPaused EXCEPT ![torrent] = FALSE]
            /\ softPaused' = [softPaused EXCEPT ![torrent] = FALSE]
            /\ enginePaused' = [enginePaused EXCEPT ![torrent] =
                                    IF hardPaused[torrent] \/ softPaused[torrent]
                                    THEN FALSE ELSE @]
            /\ critical' = [critical EXCEPT ![torrent] =
                                SeekCriticalRange(torrent, currentFile, time)]
            /\ lastOp' = "seek"
       ELSE /\ lastOp' = "updatePlayback"
            /\ UNCHANGED <<hardPaused, softPaused, enginePaused, critical>>

\* pieces of torrent t that belong to file i
FilePieces(t, i) ==
    Floor(Files(t)[i].offset, PieceLength(t)) ..
        (Ceil(Files(t)[i].offset + Files(t)[i].length, PieceLength(t)) - 1)

\* The swarm delivers piece i of torrent t.  The engine requests a piece only
\* while the torrent is not paused, the piece belongs to a selected file and its
\* have-bit is false; the store then holds its bytes and the have-bit is set.
PieceArrives(t, i) ==
    /\ t \in metadata
    /\ ~enginePaused[t]
    /\ i \notin bitfield[t]
    /\ \E f \in selected[t] : i \in FilePieces(t, f)
    /\ chunks' = [chunks EXCEPT ![t] = @ \cup {i}]
    /\ bitfield' = [bitfield EXCEPT ![t] = @ \cup {i}]
    /\ lastOp' = "piece"
    /\ UNCHANGED <<engineVars, clientTorrents, metadata, selected, enginePaused,
                   softPaused, hardPaused, bufferConfig, bufferInfo, critical,
                   asyncVars, bitrateUpdates, tickLog>>

\* The engine selects file i of the streaming torrent again while the scheduler
\* runs on a file (what "deselect all other files on every tick" guards against).
EngineReselects(i) ==
    /\ slidingWindowInterval
    /\ currentTorrent # NULL
    /\ currentFile # NoFile
    /\ currentTorrent \in metadata
    /\ i \in FileIndexes(currentTorrent)
    /\ i \notin selected[currentTorrent]
    /\ selected' = [selected EXCEPT ![currentTorrent] = @ \cup {i}]
    /\ lastOp' = "reselect"
    /\ UNCHANGED <<engineVars, clientTorrents, metadata, bitfield, chunks, enginePaused,
                   softPaused, hardPaused, bufferConfig, bufferInfo, critical,
                   asyncVars, bitrateUpdates, tickLog>>

\* --------------------------------------------------------------------------
\* RAW HTTP STREAMING SERVER
\* --------------------------------------------------------------------------
\* One side of "bytes=<first>-<last>" after range.replace(/bytes=/, '').split('-'):
\* a decimal number, the empty string, or text that is no number.
NumToken(n) == [kind |-> "num", val |-> n]

EmptyToken == [kind |-> "empty", val |-> 0]

JunkToken == [kind |-> "junk", val |-> 0]

\* parseInt(token, 10)
parseInt(token) == IF token.kind = "num" THEN token.val ELSE NaN

\* Math.min, comparisons and arithmetic of numbers that may be NaN
NumMin(a, b) == IF a = NaN \/ b = NaN THEN NaN ELSE Min(a, b)

NumLt(a, b) == a # NaN /\ b # NaN /\ a < b

NumGe(a, b) == a # NaN /\ b # NaN /\ a >= b

\* the values handleRawRequest derives from a Range header
ParseRange(range, fileSize) ==
    LET start == parseInt(range[1])
        requestedEnd == IF range[2].kind # "empty" THEN parseInt(range[2]) ELSE fileSize - 1
        end == NumMin(requestedEnd, fileSize - 1)
    IN  [start |-> start,
         end |-> end,
         unsatisfiable |-> NumGe(start, fileSize) \/ NumLt(start, 0) \/ NumLt(end, start),
         chunkSize |-> IF start = NaN \/ end = NaN THEN NaN ELSE end - start + 1]

\* estimatedBitrate after a range request at start, elapsed ms after the last one
BitrateObserved(start, elapsed) ==
    LET bytesDiff == IF start = NaN THEN NaN ELSE Abs(start - lastBytePosition)
    IN  /\ lastBytePosition > 0 /\ lastByteTime > 0 /\ elapsed < 5000
        /\ bytesDiff > 0 /\ elapsed > 0

ObservedBitrate(start, elapsed) ==
    LET bytesDiff == IF start = NaN THEN NaN ELSE Abs(start - lastBytePosition)
        instantBitrate == Rat(bytesDiff * 1000, elapsed)
    IN  IF BitrateObserved(start, elapsed)
        THEN IF estimatedBitrate[1] > 0
             THEN Rat(7 * estimatedBitrate[1] * instantBitrate[2]
                        + 3 * instantBitrate[1] * estimatedBitrate[2],
                      10 * estimatedBitrate[2] * instantBitrate[2])
             ELSE instantBitrate
        ELSE estimatedBitrate

\* a handler that records the start before it validates the range
PlaybackBytesBeforeValidation(r) == r.start

\* currentPlaybackBytes after a request with the parsed range r: the assignment
\* currentPlaybackBytes = start comes after the return of the 416 branch
PlaybackBytesAfter(r) ==
    IF r.unsatisfiable THEN currentPlaybackBytes ELSE r.start

\* handleRawRequest; range is NoRange when the request has no Range header
RawRequest(method, range, elapsed) ==
    /\ UNCHANGED <<currentTorrent, currentFile, currentPlaybackTime,
                   slidingWindowInterval, statusUpdateInterval, ffmpegCommand,
                   isTranscoding, useTranscoding, transcodeClientId, children,
                   durationProbes, actualVideoDuration, torrentVars, pendingAdds, pendingRemovals, tickLog>>
    /\ lastOp' = "rawRequest"
    /\ IF method = "OPTIONS"
       THEN /\ response' = [status |-> 200, method |-> method]
            /\ UNCHANGED <<currentPlaybackBytes, estimatedBitrate, lastBytePosition,
                           lastByteTime, stream, bitrateUpdates>>
       ELSE IF currentFile = NoFile
       THEN /\ response' = [status |-> 404, method |-> method]
            /\ UNCHANGED <<currentPlaybackBytes, estimatedBitrate, lastBytePosition,
                           lastByteTime, stream, bitrateUpdates>>
       ELSE LET file == currentFile
                fileSize == FileOf(file).length
            IN  IF range # NoRange
                THEN LET r == ParseRange(range, fileSize)
                         estimate == ObservedBitrate(r.start, elapsed)
                         observed == BitrateObserved(r.start, elapsed)
                     IN  IF r.unsatisfiable
                         THEN /\ response' = [status |-> 416, method |-> method,
                                              size |-> fileSize]
                              /\ currentPlaybackBytes' = PlaybackBytesAfter(r)
                              /\ UNCHANGED <<estimatedBitrate, lastBytePosition,
                                             lastByteTime, stream, bitrateUpdates>>
                         ELSE /\ observed => bitrateUpdates < MaxBitrateUpdates
                              /\ currentPlaybackBytes' = PlaybackBytesAfter(r)
                              /\ estimatedBitrate' = estimate
                              /\ bitrateUpdates' = IF observed
                                                   THEN bitrateUpdates + 1
                                                   ELSE bitrateUpdates
                              /\ lastBytePosition' = r.start
                              /\ lastByteTime' = 1
                              /\ response' = [status |-> 206, method |-> method,
                                              start |-> r.start, end |-> r.end,
                                              size |-> fileSize,
                                              contentLength |-> r.chunkSize]
                              /\ stream' = IF method = "HEAD" THEN stream
                                           ELSE [state |-> "open", file |-> file,
                                                 start |-> r.start, end |-> r.end]
                ELSE /\ response' = [status |-> 200, method |-> method,
                                     contentLength |-> fileSize]
                     /\ stream' = IF method = "HEAD" THEN stream
                                  ELSE [state |-> "open", file |-> file,
                                        start |-> 0, end |-> fileSize - 1]
                     /\ UNCHANGED <<currentPlaybackBytes, estimatedBitrate,
                                    lastBytePosition, lastByteTime, bitrateUpdates>>

\* The read stream of the last GET yields its first bytes: the piece under its
\* start has bytes in the store of the file's torrent.
StreamDelivers ==
    /\ stream.state = "open"
    /\ stream.start # NaN
    /\ Floor(FileOf(stream.file).offset + stream.start, PieceLength(stream.file[1]))
           \in chunks[stream.file[1]]
    /\ stream' = [stream EXCEPT !.state = "data"]
    /\ lastOp' = "streamData"
    /\ UNCHANGED <<engineVars, torrentVars, pendingAdds, pendingRemovals, response,
                   bitrateUpdates, tickLog>>

\* --------------------------------------------------------------------------
\* TRANSCODING HTTP SERVER
\* --------------------------------------------------------------------------
\* What a GET leaves behind: the remux child (created, not yet spawned), the
\* response it is piped to and the read stream it reads from.  A HEAD request
\* creates neither child nor stream and registers no handler.
NewChild == [proc |-> "created", res |-> "open", input |-> "open"]

HeadOnly == [proc |-> "none", res |-> "ended", input |-> "none"]

\* the remux children that are alive and have not been sent a kill signal
LiveChildren == {k \in DOMAIN children : children[k].proc \in {"created", "running"}}

\* The value of the query parameter t is a token as in a Range header: a decimal
\* number (here it may be negative), no parameter or an empty one, or text that
\* is no number.  seekTime = parseFloat(url.searchParams.get('t') || '0') is the
\* number, 0, or NaN, and NaN > 0 is false:
\* seekByteOffset = seekTime > 0 ? Math.floor(seekTime * estimatedBytesPerSecond) : 0
\* with estimatedBytesPerSecond = currentFile.length / bufferConfig.estimatedDuration
seekByteOffset(torrent, file, t) ==
    IF t.kind = "num" /\ t.val > 0
    THEN Floor(t.val * FileOf(file).length,
               BufferConfigOf(torrent, file).estimatedDuration)
    ELSE 0

\* the child of a GET whose input is currentFile.createReadStream(streamOpts):
\* the stream starts at seekByteOffset and has no end option
ChildReadingFrom(start) == [start |-> start] @@ NewChild

\* handleTranscodeRequest for the URL /?t=<t>
handleTranscodeSeek(method, t) ==
    /\ UNCHANGED <<currentTorrent, currentFile, currentPlaybackTime, currentPlaybackBytes,
                   estimatedBitrate, lastBytePosition, lastByteTime,
                   slidingWindowInterval, statusUpdateInterval, useTranscoding,
                   durationProbes, actualVideoDuration, torrentVars, asyncVars, bitrateUpdates, tickLog>>
    /\ IF method = "OPTIONS"
       THEN /\ lastOp' = "remuxOptions"
            /\ UNCHANGED <<ffmpegCommand, isTranscoding, transcodeClientId, children>>
       ELSE IF currentFile = NoFile \/ currentTorrent = NULL
       THEN /\ lastOp' = "remuxNotFound"
            /\ UNCHANGED <<ffmpegCommand, isTranscoding, transcodeClientId, children>>
       ELSE /\ transcodeClientId < MaxRemuxRequests
            /\ transcodeClientId' = transcodeClientId + 1
            /\ isTranscoding' = IF ffmpegCommand # NoCommand THEN FALSE ELSE isTranscoding
            /\ IF method = "HEAD"
               THEN /\ children' = Append(KillChild(ffmpegCommand), HeadOnly)
                    /\ ffmpegCommand' = NoCommand
                    /\ lastOp' = "remuxHead"
               ELSE /\ children' =
                        Append(KillChild(ffmpegCommand),
                               ChildReadingFrom(seekByteOffset(currentTorrent, currentFile, t)))
                    /\ ffmpegCommand' = transcodeClientId + 1
                    /\ lastOp' = "remux"

\* handleTranscodeRequest for the URL /
handleTranscodeRequest(method) == handleTranscodeSeek(method, EmptyToken)

remuxUnchanged ==
    <<currentTorrent, currentFile, currentPlaybackTime, currentPlaybackBytes,
      estimatedBitrate, lastBytePosition, lastByteTime, slidingWindowInterval,
      statusUpdateInterval, useTranscoding, transcodeClientId, durationProbes, actualVideoDuration,
      torrentVars, asyncVars, bitrateUpdates, tickLog>>

\* .on('start'): the child of request k has been spawned
ChildStart(k) ==
    /\ k \in DOMAIN children
    /\ children[k].proc = "created"
    /\ children' = [children EXCEPT ![k].proc = "running"]
    /\ isTranscoding' = TRUE
    /\ lastOp' = "childStart"
    /\ UNCHANGED <<ffmpegCommand, remuxUnchanged>>

\* .on('error'): the child of request k failed or was killed
ChildError(k) ==
    /\ k \in DOMAIN children
    /\ children[k].proc \in {"created", "running", "killed"}
    /\ isTranscoding' = FALSE
    /\ children' = [children EXCEPT ![k].proc = "dead",
                                    ![k].res = IF @ = "open" THEN "ended" ELSE @]
    /\ ffmpegCommand' = NoCommand
    /\ lastOp' = "childError"
    /\ UNCHANGED remuxUnchanged

\* .on('end'): the child of request k finished
ChildEnd(k) ==
    /\ k \in DOMAIN children
    /\ children[k].proc = "running"
    /\ isTranscoding' = FALSE
    /\ children' = [children EXCEPT ![k].proc = "dead",
                                    ![k].res = IF @ = "open" THEN "ended" ELSE @]
    /\ ffmpegCommand' = NoCommand
    /\ lastOp' = "childEnd"
    /\ UNCHANGED remuxUnchanged

\* res.on('close') of request k: the client disconnected, or the response ended
ResponseClose(k) ==
    /\ k \in DOMAIN children
    /\ children[k].proc # "none"
    /\ children[k].res \in {"open", "ended"}
    /\ children' = [KillChild(ffmpegCommand) EXCEPT ![k].res = "closed",
                                                    ![k].input = "destroyed"]
    /\ ffmpegCommand' = NoCommand
    /\ isTranscoding' = IF ffmpegCommand # NoCommand THEN FALSE ELSE isTranscoding
    /\ lastOp' = "responseClose"
    /\ UNCHANGED remuxUnchanged

\* --------------------------------------------------------------------------
\* Specifications
\* --------------------------------------------------------------------------
\* Every operation of the engine, over all the inputs the specifications below draw.
PlaybackTimes == {0, 300, 900}

RangeTokens == {NumToken(0), NumToken(40), NumToken(149), NumToken(150), EmptyToken, JunkToken}

Next ==
    \/ \E m \in Torrents \cup {""} : TorrentAdd(m)
    \/ \E m \in Torrents \cup {""} : TorrentStart(m)
    \/ \E p \in pendingAdds : MetadataReady(p)
    \/ \E p \in pendingAdds : ConnectionTimeout(p)
    \/ \E r \in pendingRemovals : RemovalDone(r)
    \/ \E i \in 0..2 : SelectFile(i)
    \/ TorrentStop
    \/ \E m \in {100, 600} : Tick(m)
    \/ \E t \in {"T1", "T2"} : \E i \in 0..(TotalPieces(t) - 1) : PieceArrives(t, i)
    \/ \E i \in 0..1 : EngineReselects(i)
    \/ \E time \in PlaybackTimes : UpdatePlayback(time)
    \/ \E method \in {"GET", "HEAD", "OPTIONS"} :
         \E range \in {NoRange} \cup (RangeTokens \X RangeTokens) :
           \E elapsed \in {0, 1000, 5000} : RawRequest(method, range, elapsed)
    \/ StreamDelivers
    \/ DurationProbeEnds
    \/ \E duration \in {600, 2400} : tryGetDuration(duration)
    \/ \E method \in {"GET", "HEAD", "OPTIONS"} :
         \E t \in {EmptyToken, JunkToken, NumToken(600), NumToken(1200)} :
           handleTranscodeSeek(method, t)
    \/ \E k \in DOMAIN children : ChildStart(k)
    \/ \E k \in DOMAIN children : ChildError(k)
    \/ \E k \in DOMAIN children : ChildEnd(k)
    \/ \E k \in DOMAIN children : ResponseClose(k)

Spec == Init /\ [][Next]_vars

\* --------------------------------------------------------------------------
\* The scheduler over one streaming session of T1 (piece length 32 MiB, a 150 MiB
\* video in pieces 0..4): ticks, piece arrivals, playback updates that move the
\* read head between piece 0 and piece 3, re-selection by the engine.
\* --------------------------------------------------------------------------
WindowTimes == {0, 900}

NextWindow ==
    \/ TorrentStart("T1")
    \/ \E p \in pendingAdds : MetadataReady(p)
    \/ Tick(100)
    \/ \E i \in 0..(TotalPieces("T1") - 1) : PieceArrives("T1", i)
    \/ \E i \in 0..1 : EngineReselects(i)
    \/ \E time \in WindowTimes : UpdatePlayback(time)

SpecWindow == Init /\ [][NextWindow]_vars

\* the resident piece bytes of the session's torrent
ResidentBytes == StoredBytes(currentTorrent, chunks[currentTorrent])

\* C1: at the end of every scheduler tick the pieces resident in the piece store
\* add up to at most 75 MiB.
C1_BoundedMemory ==
    lastOp = "tick" => ResidentBytes <= HARD_LIMIT_BUFFER_MB

\* C2: after every completed tick no piece outside the window published in that
\* tick's BufferInfo has bytes in the piece store.
C2_WindowContainment ==
    lastOp = "tick" =>
        \A i \in chunks[currentTorrent] :
            /\ bufferInfo[currentTorrent].windowStart <= i
            /\ i <= bufferInfo[currentTorrent].windowEnd

\* a tick has ended with pieces in the store, and pieces that arrived beyond the
\* end of its window are gone
C2_Witness ==
    /\ lastOp = "tick"
    /\ chunks[currentTorrent] # {}
    /\ \E i \in bitfield[currentTorrent] \ chunks[currentTorrent] :
          i > bufferInfo[currentTorrent].windowEnd

\* --------------------------------------------------------------------------
\* The session life cycle: add requests for two torrents, start requests for one
\* of them and stop requests in any order, with the metadata, removal and timeout
\* callbacks in between.
\* --------------------------------------------------------------------------
LifeInputs == {"", "T1", "T2"}

NextLife ==
    \/ \E m \in LifeInputs : TorrentAdd(m)
    \/ \E m \in {"", "T2"} : TorrentStart(m)
    \/ \E p \in pendingAdds : MetadataReady(p)
    \/ \E p \in pendingAdds : ConnectionTimeout(p)
    \/ \E r \in pendingRemovals : RemovalDone(r)
    \/ TorrentStop

SpecLife == Init /\ [][NextLife]_vars

\* C3: at every moment the client holds at most one torrent, and a torrent it
\* holds whose metadata has arrived is the current session.
C3_SingleTorrent ==
    /\ Cardinality(clientTorrents) <= 1
    /\ \A t \in clientTorrents \cap metadata : t = currentTorrent

\* --------------------------------------------------------------------------
\* File selection: torrent:add of T1 (a video and a text file), select-file,
\* ticks, re-selection by the engine, stop.
\* --------------------------------------------------------------------------
NextSelect ==
    \/ \E m \in {"", "T1"} : TorrentAdd(m)
    \/ \E p \in pendingAdds : MetadataReady(p)
    \/ \E r \in pendingRemovals : RemovalDone(r)
    \/ \E i \in 0..2 : SelectFile(i)
    \/ TorrentStop
    \/ Tick(100)
    \/ \E i \in 0..1 : EngineReselects(i)
    \/ DurationProbeEnds

SpecSelect == Init /\ [][NextSelect]_vars

\* C4: at the end of every tick the streaming file is selected and no other file
\* of the tick's torrent is; while a torrent is loaded and no file has been chosen
\* (after torrent:add, before select-file) none of its files is selected.
C4_OnlyStreamingFileSelected ==
    /\ lastOp = "tick" =>
          /\ currentFile[2] \in selected[currentFile[1]]
          /\ \A i \in selected[currentTorrent] : <<currentTorrent, i>> = currentFile
    /\ (currentTorrent # NULL /\ currentFile = NoFile) => selected[currentTorrent] = {}

\* a tick has ended on the two-file torrent with the second file streaming
C4_Witness ==
    /\ lastOp = "tick"
    /\ currentFile = <<"T1", 1>>
    /\ selected["T1"] = {1}

\* --------------------------------------------------------------------------
\* The raw endpoint over a session of T1 (N = 150): requests of every method,
\* without a Range header and with one whose two sides are numbers up to N, empty
\* or no number.
\* --------------------------------------------------------------------------
RawMethods == {"GET", "HEAD", "OPTIONS"}

RawStarts == {NumToken(0), NumToken(40), NumToken(150), EmptyToken, JunkToken}

RawEnds == {NumToken(0), NumToken(149), NumToken(150), EmptyToken, JunkToken}

RawElapsed == {1000, 5000}

NextRaw ==
    \/ TorrentStart("T1")
    \/ \E p \in pendingAdds : MetadataReady(p)
    \/ \E method \in RawMethods : \E range \in {NoRange} \cup (RawStarts \X RawEnds) :
         \E elapsed \in RawElapsed : RawRequest(method, range, elapsed)

SpecRaw == Init /\ [][NextRaw]_vars

\* 0 <= s <= e < N for the requested values, e defaulting to N - 1
RequestedRangeValid(range, N) ==
    /\ range[1].kind = "num"
    /\ 0 <= range[1].val
    /\ range[1].val < N
    /\ \/ range[2].kind = "empty"
       \/ /\ range[2].kind = "num"
          /\ range[1].val <= range[2].val
          /\ range[2].val < N

\* C5: a request with a Range header is answered 206 only if 0 <= s <= e < N holds
\* for the requested values, and in every other case 416 with Content-Range
\* bytes */N.
C5_RangeValidation ==
    [][\A method \in {"GET", "HEAD"} : \A range \in RawStarts \X RawEnds :
         \A elapsed \in RawElapsed :
           (currentFile # NoFile /\ RawRequest(method, range, elapsed)) =>
               IF RequestedRangeValid(range, FileOf(currentFile).length)
               THEN response'.status = 206
               ELSE response' = [status |-> 416, method |-> method,
                                 size |-> FileOf(currentFile).length]]_vars

\* C6: every 206 response has Content-Range bytes s-e/N with integers
\* 0 <= s <= e < N and Content-Length e - s + 1, and for GET the read stream
\* opened for the body covers [s, e].
C6_PartialContent ==
    response.status = 206 =>
        /\ response.start # NaN
        /\ response.end # NaN
        /\ 0 <= response.start
        /\ response.start <= response.end
        /\ response.end < response.size
        /\ response.contentLength = response.end - response.start + 1
        /\ (response.method = "GET" /\ stream # NoStream) =>
              /\ stream.start = response.start
              /\ stream.end = response.end

\* C7: a piece the scheduler evicted has its have-bit cleared, so after a tick
\* bitfield.get reports no piece as present whose bytes were dropped.
C7_EvictionClearsHaveBit ==
    lastOp = "tick" =>
        \A i \in bitfield[currentTorrent] : i \in chunks[currentTorrent]

\* --------------------------------------------------------------------------
\* Seeking back: a session of T2 (piece length 16 MiB, a 40 MiB video in pieces
\* 3..5) in which the player moves between the start and second 1000 and asks
\* for the first bytes of the file.  The scheduler keeps ticking, the swarm
\* delivers every piece the engine requests, and an open read stream yields its
\* bytes once the store holds them.
\* --------------------------------------------------------------------------
RefetchTimes == {0, 1000}

NextRefetch ==
    \/ TorrentStart("T2")
    \/ \E p \in pendingAdds : MetadataReady(p)
    \/ Tick(100)
    \/ \E i \in 0..(TotalPieces("T2") - 1) : PieceArrives("T2", i)
    \/ \E time \in RefetchTimes : UpdatePlayback(time)
    \/ RawRequest("GET", <<NumToken(0), EmptyToken>>, 5000)
    \/ StreamDelivers

SpecRefetch ==
    /\ Init
    /\ [][NextRefetch]_vars
    /\ WF_vars(Tick(100))
    /\ \A i \in FilePieces("T2", 1) : WF_vars(PieceArrives("T2", i))
    /\ WF_vars(StreamDelivers)

\* the piece under the first byte of the open read stream
StreamPiece ==
    Floor(FileOf(stream.file).offset + stream.start, PieceLength(stream.file[1]))

\* a read stream is open at the position the player sought to, and the piece
\* there was downloaded earlier and evicted since
SeekToEvicted ==
    /\ stream.state = "open"
    /\ currentTorrent = stream.file[1]
    /\ currentTorrent \in clientTorrents
    /\ currentPlaybackBytes = stream.start
    /\ bufferInfo[currentTorrent] # NoBufferInfo
    /\ bufferInfo[currentTorrent].currentPiece = StreamPiece
    /\ StreamPiece \in bitfield[currentTorrent]
    /\ StreamPiece \notin chunks[currentTorrent]

\* C8: a range request at a position sought to, whose pieces were downloaded and
\* evicted before, eventually receives its bytes (unless the session ends first,
\* which closes the stream).
C8_SeekRefetch == SeekToEvicted ~> (stream.state = "data" \/ stream = NoStream)

\* --------------------------------------------------------------------------
\* Seeking: a session of T3 (piece length 1 MiB; an 8 GiB video, where 15 s are
\* 23 pieces, and a 100 MiB video behind it, where 15 s are 2 pieces), playback
\* updates up to the last seconds of the small file, range probes of the player,
\* ticks.
\* --------------------------------------------------------------------------
SeekTimes == {0, 300, 1190}

SeekRanges == {<<NumToken(40), EmptyToken>>}

NextSeek ==
    \/ TorrentAdd("T3")
    \/ \E p \in pendingAdds : MetadataReady(p)
    \/ \E r \in pendingRemovals : RemovalDone(r)
    \/ \E i \in 0..1 : SelectFile(i)
    \/ Tick(100)
    \/ \E time \in SeekTimes : UpdatePlayback(time)
    \/ \E range \in SeekRanges : RawRequest("HEAD", range, 5000)
    \/ DurationProbeEnds

SpecSeek == Init /\ [][NextSeek]_vars

\* the piece of playback time t: floor((fileOffset + floor(t * bps)) / pieceLength)
PieceOfTime(t, bps) ==
    Floor(FileOf(currentFile).offset + Floor(t * bps[1], bps[2]),
          PieceLength(currentTorrent))

\* C9: the tick that follows a seek to time t publishes as currentPiece the piece
\* of time t, whatever range requests were served before.
C9_TickFollowsSeek ==
    [][(lastOp = "seek" /\ lastOp' = "tick") =>
          \/ bufferInfo'[currentTorrent].currentPiece =
                 PieceOfTime(currentPlaybackTime, bufferConfig[currentTorrent].bytesPerSecond)
          \/ bufferInfo'[currentTorrent].currentPiece =
                 PieceOfTime(currentPlaybackTime, TickBytesPerSecond(currentTorrent, currentFile))]_vars

\* ceil(seconds * bps / pieceLength) for the configured rate of the session
PiecesOfSeconds(seconds) ==
    LET bps == bufferConfig[currentTorrent].bytesPerSecond
    IN  Ceil(seconds * bps[1], bps[2] * PieceLength(currentTorrent))

TickObservation ==
    LET w == SlidingWindow(currentTorrent, currentFile)
    IN  [torrent |-> currentTorrent,
         pre |-> softPaused[currentTorrent],
         ahead |-> BufferedAheadSeconds(currentTorrent, w.currentPiece,
                       BufferedEnd(currentTorrent, w.currentPiece, w.windowEnd),
                       TickBytesPerSecond(currentTorrent, currentFile)),
         full |-> TargetBufferSeconds(BufferConfigOf(currentTorrent, currentFile)),
         transcoding |-> isTranscoding]

LastTwo(log) == IF Len(log) <= 2 THEN log ELSE SubSeq(log, Len(log) - 1, Len(log))

TickLogged(processMemMB) ==
    /\ startSlidingWindow(processMemMB)
    /\ IF currentTorrent = NULL \/ currentFile = NoFile
       THEN UNCHANGED tickLog
       ELSE \E seen \in {TickObservation} :
              tickLog' = Append(LastTwo(tickLog),
                                [torrent |-> seen.torrent,
                                 pre |-> seen.pre,
                                 post |-> softPaused'[currentTorrent],
                                 ahead |-> seen.ahead,
                                 full |-> seen.full,
                                 transcoding |-> seen.transcoding])

HysteresisPieces == 0..4

HysteresisRanges == {<<NumToken(k), EmptyToken>> : k \in {0, 2, 3}}

HysteresisTimes == {60}

NextHysteresis ==
    \/ clientTorrents = {} /\ TorrentStart("T4")
    \/ \E p \in pendingAdds : MetadataReady(p)
    \/ TickLogged(100)
    \/ \E i \in HysteresisPieces :
         (\A j \in 0..(i - 1) : j \in bitfield["T4"]) /\ PieceArrives("T4", i)
    \/ \E range \in HysteresisRanges : RawRequest("HEAD", range, 5000)
    \/ \E time \in HysteresisTimes : UpdatePlayback(time)
    \/ transcodeClientId = 0 /\ handleTranscodeRequest("GET")
    \/ \E k \in DOMAIN children : ChildStart(k)
    \/ \E k \in DOMAIN children : ChildEnd(k)

SpecHysteresis == Init /\ [][NextHysteresis]_vars

\* the last three ticks ran on one session and the flag flipped at each of the
\* last two tick ends: SoftPaused, Running, SoftPaused or the reverse
Oscillated ==
    /\ Len(tickLog) = 3
    /\ tickLog[1].torrent = tickLog[2].torrent
    /\ tickLog[2].torrent = tickLog[3].torrent
    /\ tickLog[1].post # tickLog[2].post
    /\ tickLog[2].post # tickLog[3].post

\* Ahead was at or above Tfull at one of the three ticks and below
\* Tresume = 0.5 * Tfull at another
CrossedBoth ==
    \E x, y \in 1..3 :
        /\ RLe(tickLog[x].full, tickLog[x].ahead)
        /\ RLt(<<2 * tickLog[y].ahead[1], tickLog[y].ahead[2]>>, tickLog[y].full)

\* nothing but the ticks changed the flag between the three ticks, and the
\* remux-active flag was false at the last two
TicksAlone ==
    /\ tickLog[2].pre = tickLog[1].post
    /\ tickLog[3].pre = tickLog[2].post
    /\ ~tickLog[2].transcoding
    /\ ~tickLog[3].transcoding

\* C11 as stated: over consecutive ticks the soft-pause flag never goes
\* SoftPaused, Running, SoftPaused (or Running, SoftPaused, Running) unless Ahead
\* crossed both Tfull and Tresume in between, whatever seeks, range requests and
\* remux events happen.
C11_NoOscillation == Oscillated => CrossedBoth

\* C11 as amended: the same, over consecutive ticks between which no seek,
\* select-file or new session reset the flag and at which the remux-active flag
\* is false.
C11_Hysteresis == (Oscillated /\ TicksAlone) => CrossedBoth

\* the flag went SoftPaused, Running, SoftPaused by the ticks alone
C11_Witness ==
    /\ Oscillated
    /\ TicksAlone
    /\ tickLog[1].post
    /\ tickLog[3].post

\* --------------------------------------------------------------------------
\* The hard limit: torrent:add of T1 and select-file of its video (32 MiB
\* pieces, so the window around piece 3 holds 96 MiB), arrivals of the pieces of
\* that window, ticks with a heap of 100 MiB and of 600 MiB, seeks, stop.
\* --------------------------------------------------------------------------
HardHeaps == {100, 600}

HardPieces == 2..4

NextHard ==
    \/ clientTorrents = {} /\ TorrentAdd("T1")
    \/ \E p \in pendingAdds : MetadataReady(p)
    \/ \E r \in pendingRemovals : RemovalDone(r)
    \/ SelectFile(0)
    \/ DurationProbeEnds
    \/ \E m \in HardHeaps : Tick(m)
    \/ \E i \in HardPieces : PieceArrives("T1", i)
    \/ \E time \in WindowTimes : UpdatePlayback(time)
    \/ TorrentStop

SpecHard == Init /\ [][NextHard]_vars

\* what a tick with heap m measures: over the hard limit before its eviction,
\* below 80 % of the soft cap after it
MeasuresOverLimit(m) ==
    StoredBytes(currentTorrent, chunks[currentTorrent]) > HARD_LIMIT_BUFFER_MB \/ m > 500

MeasuresBelowResume ==
    10 * StoredBytes(currentTorrent, chunks'[currentTorrent]) < 8 * MAX_BUFFER_SIZE_MB

\* C12: a tick that finds the store above 75 MiB (or the heap above 500 MiB)
\* ends with hardPaused true and the engine paused; both stay so at the end of
\* every later tick until a tick (that one included) measures less than 56 MiB;
\* and while the session is hard-paused no operation but such a tick, a seek or
\* a stop resumes the engine.
C12_HardPauseHolds ==
    [][/\ \A m \in HardHeaps :
            (currentTorrent # NULL /\ currentFile # NoFile /\ Tick(m)
               /\ (MeasuresOverLimit(m) \/ hardPaused[currentTorrent])
               /\ ~MeasuresBelowResume)
            => (hardPaused'[currentTorrent] /\ enginePaused'[currentTorrent])
       /\ (/\ currentTorrent # NULL
           /\ hardPaused[currentTorrent]
           /\ enginePaused[currentTorrent]
           /\ hardPaused'[currentTorrent]
           /\ lastOp' # "tick")
          => enginePaused'[currentTorrent]]_vars

\* --------------------------------------------------------------------------
\* The remux endpoint over a session of T2 (its video is an mkv in pieces 3..5;
\* one piece is 480 s of it, Tfull = 120 s): requests of every method, the
\* start, error and end events of the children, closes of the responses, ticks
\* and the arrival of the first two pieces of the video.
\* --------------------------------------------------------------------------
RemuxMethods == {"GET", "HEAD", "OPTIONS"}

RemuxPieces == 3..4

NextRemux ==
    \/ clientTorrents = {} /\ TorrentStart("T2")
    \/ \E p \in pendingAdds : MetadataReady(p)
    \/ Tick(100)
    \/ \E i \in RemuxPieces : PieceArrives("T2", i)
    \/ \E method \in RemuxMethods : handleTranscodeRequest(method)
    \/ \E k \in DOMAIN children : ChildStart(k)
    \/ \E k \in DOMAIN children : ChildError(k)
    \/ \E k \in DOMAIN children : ChildEnd(k)
    \/ \E k \in DOMAIN children : ResponseClose(k)

SpecRemux == Init /\ [][NextRemux]_vars

\* a remux child is running: spawned, not killed, not ended
ChildRunning == \E k \in DOMAIN children : children[k].proc = "running"

\* C13: no tick soft-pauses the session while a remux child is running, and a
\* tick that finds the session soft-paused (and not hard-paused) while a child
\* is running resumes it.
C13_NoSoftPauseDuringRemux ==
    [][(ChildRunning /\ currentTorrent # NULL /\ currentFile # NoFile /\ Tick(100)) =>
          /\ ~(~softPaused[currentTorrent] /\ softPaused'[currentTorrent])
          /\ (softPaused[currentTorrent] /\ ~hardPaused'[currentTorrent])
                => ~softPaused'[currentTorrent]]_vars

\* C14: at every moment at most one remux child is alive without having been
\* sent a kill signal.
C14_SingleRemuxChild == Cardinality(LiveChildren) <= 1

\* C15: when the response of remux request k closes, the child started for
\* request k is no longer alive unkilled and its input stream is destroyed, and
\* no child of another request is killed by it.
C15_CloseKillsOwnChild ==
    [][\A k \in DOMAIN children :
          ResponseClose(k) =>
              /\ k \notin {j \in DOMAIN children' :
                                children'[j].proc \in {"created", "running"}}
              /\ children'[k].input = "destroyed"
              /\ \A j \in DOMAIN children \ {k} :
                    children'[j].proc = children[j].proc]_vars

\* --------------------------------------------------------------------------
\* Sessions: torrent:add of T1, torrent:start of T2 and requests with an empty
\* input, stop, the metadata, removal and timeout callbacks, the arrival of the
\* first piece of T2's video, and one remux request with the start of its child.
\* --------------------------------------------------------------------------
SessionInputs == Blank \cup {NULL}

NextSession ==
    \/ \E m \in SessionInputs \cup {"T1"} : TorrentAdd(m)
    \/ \E m \in SessionInputs \cup {"T2"} : TorrentStart(m)
    \/ \E p \in pendingAdds : MetadataReady(p)
    \/ \E p \in pendingAdds : ConnectionTimeout(p)
    \/ \E r \in pendingRemovals : RemovalDone(r)
    \/ TorrentStop
    \/ PieceArrives("T2", 3)
    \/ transcodeClientId = 0 /\ handleTranscodeRequest("GET")
    \/ \E k \in DOMAIN children : ChildStart(k)

SpecSession == Init /\ [][NextSession]_vars

\* no session, no timer, no piece bytes
NoSessionLeft ==
    /\ currentTorrent = NULL
    /\ currentFile = NoFile
    /\ ~slidingWindowInterval
    /\ ~statusUpdateInterval
    /\ \A t \in Torrents : chunks[t] = {}

\* C16: a torrent:stop that directly follows a torrent:stop leaves no session,
\* no scheduler or status timer and no resident piece bytes.
C16_StopIdempotent ==
    [][(lastOp = "stop" /\ TorrentStop) => NoSessionLeft']_vars

\* a torrent:stop has resolved at once: it found no session, or client.remove
\* threw
StopCompleted ==
    /\ lastOp = "stop"
    /\ \A r \in pendingRemovals : r.then.kind # "stop"

\* the client holds no torrent and nothing of a session is left
NothingLeft == clientTorrents = {} /\ NoSessionLeft

\* C17: when a torrent:stop has completed, at once or by the callback of its
\* client.remove, the client holds no torrent, there is no session and there
\* are no resident piece bytes, and a metadata callback that runs next does
\* not make a session current.
C17_StopLeavesNothing ==
    [][/\ StopCompleted =>
            /\ NothingLeft
            /\ (\E p \in pendingAdds : MetadataReady(p)) => currentTorrent' = NULL
       /\ (\E r \in pendingRemovals : r.then.kind = "stop" /\ RemovalDone(r))
            => NothingLeft']_vars

\* --------------------------------------------------------------------------
\* C18: a torrent:select-file of the file that the directly preceding
\* torrent:select-file selected changes nothing: the same file is selected and
\* no other, the pause flags and the engine's pause state are the same, the
\* scheduler and status timers are the same, and there is still one pending
\* chain of duration probes.
\* --------------------------------------------------------------------------
C18_SelectTwice ==
    [][\A i \in 0..2 :
          (/\ lastOp = "selectFile"
           /\ currentTorrent # NULL
           /\ currentFile = <<currentTorrent, i>>
           /\ SelectFile(i))
          => UNCHANGED <<selected, currentFile, useTranscoding, softPaused,
                         hardPaused, enginePaused, slidingWindowInterval,
                         statusUpdateInterval, durationProbes>>]_vars

\* --------------------------------------------------------------------------
\* C19: the connection timeout of an add/start removes the pending torrent
\* from the client, and metadata that arrives after the promise was settled
\* neither changes the session nor leaves a file of the torrent selected for
\* download.
\* --------------------------------------------------------------------------
C19_TimeoutCleansUp ==
    [][\A p \in pendingAdds :
          /\ ConnectionTimeout(p) => p.torrent \notin clientTorrents'
          /\ (p.resolved /\ MetadataReady(p))
                => /\ currentTorrent' = currentTorrent
                   /\ selected'[p.torrent] = {}]_vars

\* --------------------------------------------------------------------------
\* C20: torrent:add and torrent:start with a missing, empty or blank input
\* are rejected and change nothing: the session, its selected file, the timers,
\* the remux child and every torrent's state are as before.
\* --------------------------------------------------------------------------
C20_InvalidInputChangesNothing ==
    [][\A m \in SessionInputs :
          (TorrentAdd(m) \/ TorrentStart(m))
             => /\ lastOp' = "rejected"
                /\ UNCHANGED <<engineVars, torrentVars, asyncVars>>]_vars

\* a missing, empty or blank input was rejected while a session streamed a file with
\* both timers and a running remux child
C20_Witness ==
    /\ lastOp = "rejected"
    /\ currentTorrent # NULL
    /\ currentFile # NoFile
    /\ slidingWindowInterval
    /\ statusUpdateInterval
    /\ ffmpegCommand # NoCommand
    /\ children[ffmpegCommand].proc = "running"

\* --------------------------------------------------------------------------
\* Starts: one session at a time of a torrent whose largest file is no video
\* (T2), whose largest file has a name ending in ".constructor" (T5) or that
\* holds no video at all (T6), with ticks, the arrival of a piece of each file, and stop.
\* --------------------------------------------------------------------------
StartTorrents == {"T2", "T5", "T6"}

StartPieces == {1, 3}

NextStart ==
    \/ \E m \in StartTorrents : clientTorrents = {} /\ TorrentStart(m)
    \/ \E p \in pendingAdds : MetadataReady(p)
    \/ \E p \in pendingAdds : ConnectionTimeout(p)
    \/ \E r \in pendingRemovals : RemovalDone(r)
    \/ TorrentStop
    \/ Tick(100)
    \/ \E i \in StartPieces : PieceArrives(currentTorrent, i)

SpecStart == Init /\ [][NextStart]_vars

\* file i is a largest one among the files S of torrent t
LargestOf(t, i, S) ==
    i \in S /\ \A j \in S : Files(t)[j].length <= Files(t)[i].length

\* C21: when a torrent:start resolves, the file it streams is a largest file
\* among those whose extension is one of the video types, or a largest file of
\* the torrent when no file has such an extension; a start whose metadata
\* arrives in time is not rejected when the torrent has files.
C21_StartPicksLargestVideo ==
    [][\A p \in pendingAdds :
          (p.kind = "start" /\ ~p.resolved /\ MetadataReady(p))
            => LET t == p.torrent
                   videos == {i \in FileIndexes(t) : Files(t)[i].ext \in VideoExtensions}
               IN  /\ FileIndexes(t) # {} => lastOp' = "startReady"
                   /\ lastOp' = "startReady" =>
                         /\ currentFile'[1] = t
                         /\ LargestOf(t, currentFile'[2],
                                      IF videos # {} THEN videos ELSE FileIndexes(t))]_vars

\* --------------------------------------------------------------------------
\* Filling the buffer: one session, started by torrent:start, of T2 (40 MiB
\* video, 16 MiB pieces), T4 (40 MiB, 1 MiB pieces) or T7 (2 GiB, 16 MiB
\* pieces); the player stays at the start of the file and no remux runs.  The
\* scheduler keeps ticking and the swarm keeps delivering the pieces the engine
\* requests.
\* --------------------------------------------------------------------------
FillTorrents == {"T2", "T4", "T7"}

FillPieces == 0..5

SwarmDelivers == \E i \in FillPieces : PieceArrives(currentTorrent, i)

NextFill ==
    \/ \E m \in FillTorrents : clientTorrents = {} /\ TorrentStart(m)
    \/ \E p \in pendingAdds : MetadataReady(p)
    \/ Tick(100)
    \/ SwarmDelivers

SpecFill ==
    /\ Init
    /\ [][NextFill]_vars
    /\ WF_vars(Tick(100))
    /\ WF_vars(SwarmDelivers)

\* C22: with the read head at byte 0 and no remux, a session that streams a
\* file is eventually soft-paused by the scheduler.
C22_EventuallySoftPaused ==
    \A t \in FillTorrents :
        (currentTorrent = t /\ currentFile # NoFile) ~> softPaused[t]

\* --------------------------------------------------------------------------
\* Stopping a remuxed session: sessions of T2 started by torrent:start, GET
\* requests on the remux endpoint and the events of their children, ticks, and
\* torrent:stop with the callback of its removal.
\* --------------------------------------------------------------------------
NextHalt ==
    \/ clientTorrents = {} /\ TorrentStart("T2")
    \/ \E p \in pendingAdds : MetadataReady(p)
    \/ \E r \in pendingRemovals : RemovalDone(r)
    \/ TorrentStop
    \/ Tick(100)
    \/ handleTranscodeRequest("GET")
    \/ \E k \in DOMAIN children : ChildStart(k)
    \/ \E k \in DOMAIN children : ChildError(k)
    \/ \E k \in DOMAIN children : ChildEnd(k)

SpecHalt == Init /\ [][NextHalt]_vars

\* the remux children that were started and neither ended nor were sent a kill
Unkilled == {k \in DOMAIN children : children[k].proc \in {"created", "running"}}

\* C23: torrent:stop leaves, in the same step and so before its removal
\* completes, no scheduler interval, no status interval and no remux child that
\* was not killed; and an interval is armed again only by a select-file or by
\* the callback of a start.
C23_StopHaltsAtOnce ==
    [][/\ TorrentStop =>
            /\ ~slidingWindowInterval'
            /\ ~statusUpdateInterval'
            /\ Unkilled' = {}
       /\ ((~slidingWindowInterval /\ slidingWindowInterval')
              \/ (~statusUpdateInterval /\ statusUpdateInterval'))
            => lastOp' \in {"selectFile", "startReady"}]_vars

\* --------------------------------------------------------------------------
\* The read head: one session of T2 (the video starts at torrent byte 48 MiB
\* and ends inside piece 5) or of T6 (the streamed file starts at 16 MiB and
\* ends on the boundary of piece 3), playback updates up to the estimated
\* duration of 1200 s, range probes of the player, ticks.
\* --------------------------------------------------------------------------
HeadTorrents == {"T2", "T6"}

HeadTimes == {0, 600, 1200}

HeadStarts == {0, 20, 39}

NextHead ==
    \/ \E m \in HeadTorrents : clientTorrents = {} /\ TorrentStart(m)
    \/ \E p \in pendingAdds : MetadataReady(p)
    \/ \E time \in HeadTimes : UpdatePlayback(time)
    \/ \E start \in HeadStarts :
         RawRequest("HEAD", <<NumToken(start), EmptyToken>>, 5000)
    \/ Tick(100)

SpecHead == Init /\ [][NextHead]_vars

\* C24: the currentPiece a tick publishes is one of the pieces of the selected
\* file.
C24_CurrentPieceInFile ==
    (lastOp = "tick" /\ currentTorrent # NULL /\ currentFile # NoFile)
        => bufferInfo[currentTorrent].currentPiece
               \in FilePieces(currentFile[1], currentFile[2])

\* C27: when the latest range request started at file byte s > 0, the tick
\* publishes currentPiece = floor((fileOffset + s) / pieceLength).
C27_PieceOfRangeStart ==
    [][(/\ currentTorrent # NULL
        /\ currentFile # NoFile
        /\ currentPlaybackBytes > 0
        /\ Tick(100))
       => bufferInfo'[currentTorrent].currentPiece =
              Floor(FileOf(currentFile).offset + currentPlaybackBytes,
                    PieceLength(currentTorrent))]_vars

\* --------------------------------------------------------------------------
\* Buffer ahead: one session of T3 (an 8 GiB video in 1 MiB pieces, about 1.5
\* pieces per second), playback that advances from second 0 to second 5 (from
\* piece 0 to piece 7) or steps back, never by more than the 5 s that make a
\* seek, arrivals of the pieces next to both positions, ticks.  A tick records
\* what the tick before it published and what it publishes itself.
\* --------------------------------------------------------------------------
AheadTimes == {0, 5}

AheadPieces == {0, 1, 2, 7, 8, 9}

TickCompared(processMemMB) ==
    /\ startSlidingWindow(processMemMB)
    /\ IF currentTorrent = NULL \/ currentFile = NoFile
       THEN UNCHANGED tickLog
       ELSE tickLog' = <<bufferInfo[currentTorrent], bufferInfo'[currentTorrent]>>

NextAhead ==
    \/ clientTorrents = {} /\ TorrentStart("T3")
    \/ \E p \in pendingAdds : MetadataReady(p)
    \/ TickCompared(100)
    \/ \E i \in AheadPieces : PieceArrives("T3", i)
    \/ \E time \in AheadTimes : UpdatePlayback(time)

SpecAhead == Init /\ [][NextAhead]_vars

\* bufferedEnd - currentPiece as a tick published it
PublishedAhead(info) == info.bufferedEnd - info.currentPiece

\* two consecutive ticks of the session have run
TwoTicks == Len(tickLog) = 2 /\ tickLog[1] # NoBufferInfo

\* the two ticks saw the read head in the same piece and the same window end
SameHead ==
    /\ tickLog[1].currentPiece = tickLog[2].currentPiece
    /\ tickLog[1].windowEnd = tickLog[2].windowEnd

\* C25 as stated: between two consecutive ticks with no seek in between (no
\* playback update of this specification is a seek) the published
\* bufferedEnd - currentPiece does not decrease.
C25_AheadNeverDecreases ==
    TwoTicks => PublishedAhead(tickLog[2]) >= PublishedAhead(tickLog[1])

\* C25, amended: between two consecutive ticks that see the read head in the
\* same piece and the same window end, the published bufferedEnd - currentPiece
\* does not decrease.
C25_AheadGrowsAtRest ==
    (TwoTicks /\ SameHead) => PublishedAhead(tickLog[2]) >= PublishedAhead(tickLog[1])

\* two consecutive ticks at the same read head, the second of which published
\* a larger buffer ahead after pieces arrived
C25_Witness ==
    /\ TwoTicks
    /\ SameHead
    /\ lastOp = "tick"
    /\ PublishedAhead(tickLog[2]) > PublishedAhead(tickLog[1])

\* --------------------------------------------------------------------------
\* the bytes the store holds once the pieces outside the window of the tick
\* about to run are evicted
\* --------------------------------------------------------------------------
BytesAfterEviction ==
    LET w == SlidingWindow(currentTorrent, currentFile)
    IN  StoredBytes(currentTorrent,
                    EvictAfter(EvictBefore(chunks[currentTorrent], w.windowStart),
                               w.windowEnd))

\* C26: the value a tick compares with the hard cap is measured after the
\* tick's eviction of the pieces outside the window: a tick of a torrent that is
\* not hard-paused, in a process whose heap is small, does not hard-pause when
\* the pieces inside the window are within HARD_LIMIT_BUFFER_MB.
C26_MeasuredAfterEviction ==
    [][(/\ currentTorrent # NULL
        /\ currentFile # NoFile
        /\ ~hardPaused[currentTorrent]
        /\ BytesAfterEviction <= HARD_LIMIT_BUFFER_MB
        /\ Tick(100))
       => ~hardPaused'[currentTorrent]]_vars

\* --------------------------------------------------------------------------
\* C28: right after a torrent:select-file or a torrent:start has resolved, the
\* session is Running: neither pause flag of its torrent is set and the engine
\* is not paused.
\* --------------------------------------------------------------------------
C28_RunningAfterSelect ==
    (lastOp \in {"selectFile", "startReady"} /\ currentTorrent # NULL)
        => /\ ~softPaused[currentTorrent]
           /\ ~hardPaused[currentTorrent]
           /\ ~enginePaused[currentTorrent]

\* --------------------------------------------------------------------------
\* Throwing ticks: one session of T1 started by torrent:start, arrivals of
\* pieces 0..2, a range probe that moves the read head to piece 3, ticks in a
\* process with a small and with a large heap, and ticks in which one of the
\* calls throws.
\* --------------------------------------------------------------------------
ThrowHeaps == {100, 600}

ThrowPieces == 0..2

NextThrow ==
    \/ clientTorrents = {} /\ TorrentStart("T1")
    \/ \E p \in pendingAdds : MetadataReady(p)
    \/ \E m \in ThrowHeaps : Tick(m)
    \/ \E m \in ThrowHeaps : \E failing \in GuardedCalls \cup UnguardedCalls :
         TickThrows(m, failing)
    \/ \E i \in ThrowPieces : PieceArrives("T1", i)
    \/ RawRequest("HEAD", <<NumToken(100), EmptyToken>>, 5000)

SpecThrow == Init /\ [][NextThrow]_vars

\* what a tick that runs to its end leaves: the pieces outside the window
\* evicted, the streaming file selected and the buffer state published
RanToEnd(processMemMB) ==
    LET torrent == currentTorrent
        w == SlidingWindow(torrent, currentFile)
        overLimit == \/ StoredBytes(torrent, chunks[torrent]) > HARD_LIMIT_BUFFER_MB
                     \/ processMemMB > 500
    IN  /\ chunks'[torrent] =
               TickEviction(chunks[torrent], w.windowStart, w.windowEnd, overLimit)
        /\ currentFile[2] \in selected'[torrent]
        /\ bufferInfo'[torrent] # NoBufferInfo
        /\ bufferInfo'[torrent].currentPiece = w.currentPiece
        /\ bufferInfo'[torrent].bufferSizeMB =
               Min(StoredBytes(torrent, chunks'[torrent]), MAX_BUFFER_SIZE_MB)
        /\ bufferInfo'[torrent].paused = softPaused'[torrent]
        /\ bufferInfo'[torrent].hardPaused = hardPaused'[torrent]

\* C29: a tick in which a call throws leaves the scheduler interval registered
\* and the session as it was, and when the call that throws is a deselect,
\* critical, pause or resume the tick still runs to its end.
C29_ThrowsAreContained ==
    [][\A m \in ThrowHeaps : \A failing \in GuardedCalls \cup UnguardedCalls :
          (currentTorrent # NULL /\ currentFile # NoFile /\ TickThrows(m, failing))
            => /\ slidingWindowInterval'
               /\ currentTorrent' = currentTorrent
               /\ currentFile' = currentFile
               /\ failing \in GuardedCalls => RanToEnd(m)]_vars

\* torrent.pause() threw in the hard-limit branch of a tick, and the tick
\* published its buffer state all the same
C29_Witness ==
    /\ lastOp = "throw:hardPause"
    /\ slidingWindowInterval
    /\ currentTorrent # NULL
    /\ bufferInfo[currentTorrent] # NoBufferInfo
    /\ ~bufferInfo[currentTorrent].hardPaused

\* --------------------------------------------------------------------------
\* C30: a range request with a numeric start that is answered 206 updates the
\* bitrate estimate exactly when an earlier range request was answered less
\* than 5 s before and the start and the time both differ from those of that
\* request.
\* --------------------------------------------------------------------------
C30_BitrateUpdateCondition ==
    [][\A method \in RawMethods : \A range \in RawStarts \X RawEnds :
       \A elapsed \in RawElapsed :
          (/\ range[1].kind = "num"
           /\ RawRequest(method, range, elapsed)
           /\ response'.status = 206)
          => ((bitrateUpdates' = bitrateUpdates + 1)
                <=> (/\ lastByteTime > 0
                     /\ elapsed < 5000
                     /\ range[1].val # lastBytePosition
                     /\ elapsed > 0))]_vars

\* --------------------------------------------------------------------------
\* The duration probe: torrent:add of T4 and select-file of its video (an mkv
\* of 40 MiB in 1 MiB pieces, streamed through the remux endpoint, with an
\* estimated duration of 1200 s).  The chain of probes started by
\* select-file sends range requests to the raw endpoint and ends with a
\* duration or without one; the player reports its time, the scheduler ticks.
\* --------------------------------------------------------------------------
ProbedDurations == {600, 2400}

ProbeTimes == {0, 300, 600}

\* the first positions of the range requests the probe sends: the start of the
\* file and the index near its end
ProbeStarts == {0, 36}

\* a range request of the running probe on the raw endpoint
ProbeRequest(start) ==
    /\ durationProbes > 0
    /\ RawRequest("GET", <<NumToken(start), EmptyToken>>, 5000)

NextProbe ==
    \/ clientTorrents = {} /\ TorrentAdd("T4")
    \/ \E p \in pendingAdds : MetadataReady(p)
    \/ SelectFile(0)
    \/ \E start \in ProbeStarts : ProbeRequest(start)
    \/ \E duration \in ProbedDurations : tryGetDuration(duration)
    \/ DurationProbeEnds
    \/ \E time \in ProbeTimes : UpdatePlayback(time)
    \/ Tick(100)

SpecProbe == Init /\ [][NextProbe]_vars

\* C31: when the probe returns a positive duration, the buffer configuration of
\* the session takes it: estimatedDuration is the probed value and
\* bytesPerSecond is the file length divided by it.
C31_ProbeUpdatesConfig ==
    [][\A duration \in ProbedDurations :
          (currentTorrent # NULL /\ currentFile # NoFile /\ tryGetDuration(duration))
            => /\ bufferConfig'[currentTorrent].estimatedDuration = duration
               /\ bufferConfig'[currentTorrent].bytesPerSecond =
                      Rat(FileOf(currentFile).length, duration)]_vars

\* --------------------------------------------------------------------------
\* Pauses and seeks: one session of T1 started by torrent:start (one piece of
\* its video is 256 s, Tfull = 120 s), arrivals of the first pieces, ticks in
\* a process with a small and with a large heap, and playback updates that
\* advance by 5 s or jump to second 900 and back.
\* --------------------------------------------------------------------------
PauseHeaps == {100, 600}

PausePieces == 0..2

PauseTimes == {0, 5, 900}

NextPause ==
    \/ clientTorrents = {} /\ TorrentStart("T1")
    \/ \E p \in pendingAdds : MetadataReady(p)
    \/ \E m \in PauseHeaps : Tick(m)
    \/ \E i \in PausePieces : PieceArrives("T1", i)
    \/ \E time \in PauseTimes : UpdatePlayback(time)

SpecPause == Init /\ [][NextPause]_vars

\* C32: while a file is streaming, a playback update more than 5 s away from
\* the previous playback time leaves both pause flags false and the engine
\* running, and an update at most 5 s away changes neither flag nor the
\* engine's pause state.
C32_SeekClearsPauses ==
    [][\A time \in PauseTimes :
          (currentTorrent # NULL /\ currentFile # NoFile /\ UpdatePlayback(time))
            => IF Abs(time - currentPlaybackTime) > 5
               THEN /\ ~softPaused'[currentTorrent]
                    /\ ~hardPaused'[currentTorrent]
                    /\ ~enginePaused'[currentTorrent]
               ELSE UNCHANGED <<softPaused, hardPaused, enginePaused>>]_vars

\* a seek has cleared both flags: the last tick before it had published the
\* session as soft-paused and hard-paused, and the engine runs again
C32_Witness ==
    /\ lastOp = "seek"
    /\ currentTorrent # NULL
    /\ bufferInfo[currentTorrent] # NoBufferInfo
    /\ bufferInfo[currentTorrent].paused
    /\ bufferInfo[currentTorrent].hardPaused
    /\ ~softPaused[currentTorrent]
    /\ ~hardPaused[currentTorrent]
    /\ ~enginePaused[currentTorrent]

\* --------------------------------------------------------------------------
\* C33: at the end of every tick, and after every select-file and every seek,
\* the torrent of the session is paused in the engine exactly when one of its
\* two pause flags is set.
\* --------------------------------------------------------------------------
C33_PauseStateAgrees ==
    (lastOp \in {"tick", "selectFile", "seek"} /\ currentTorrent # NULL
        /\ currentFile # NoFile)
      => (enginePaused[currentTorrent]
            <=> (softPaused[currentTorrent] \/ hardPaused[currentTorrent]))

\* --------------------------------------------------------------------------
\* Large files: one session, started by torrent:start, of T3 (an 8 GiB video
\* in 1 MiB pieces) or of T8 (a 60 GiB video in 4 MiB pieces, about 8.5 MiB
\* per second), arrivals of the first pieces, playback that advances by a few
\* seconds, ticks.
\* --------------------------------------------------------------------------
HugeTorrents == {"T3", "T8"}

HugePieces == 0..3

HugeTimes == {0, 3}

NextHuge ==
    \/ \E m \in HugeTorrents : clientTorrents = {} /\ TorrentStart(m)
    \/ \E p \in pendingAdds : MetadataReady(p)
    \/ \E i \in HugePieces : PieceArrives(currentTorrent, i)
    \/ \E time \in HugeTimes : UpdatePlayback(time)
    \/ Tick(100)

SpecHuge == Init /\ [][NextHuge]_vars

\* C34: the buffer state a tick publishes is ordered:
\* windowStart <= bufferedStart <= currentPiece <= bufferedEnd <= windowEnd.
C34_WindowOrdered ==
    (lastOp = "tick" /\ currentTorrent # NULL /\ currentFile # NoFile)
      => LET info == bufferInfo[currentTorrent]
         IN  /\ info.windowStart <= info.bufferedStart
             /\ info.bufferedStart <= info.currentPiece
             /\ info.currentPiece <= info.bufferedEnd
             /\ info.bufferedEnd <= info.windowEnd

\* C35: the soft-pause threshold of a session is positive, and no tick sets
\* softPaused while the contiguous buffer ahead of the read head is zero pieces.
C35_NoPauseOnEmptyBuffer ==
    [][(currentTorrent # NULL /\ currentFile # NoFile /\ Tick(100))
         => /\ TargetBufferSeconds(BufferConfigOf(currentTorrent, currentFile))[1] > 0
            /\ (~softPaused[currentTorrent] /\ softPaused'[currentTorrent])
                 => bufferInfo'[currentTorrent].bufferedEnd
                        > bufferInfo'[currentTorrent].currentPiece]_vars

\* --------------------------------------------------------------------------
\* C36: the callback of a client.remove that runs while the session is a
\* torrent the client holds (a session newer than the one being removed)
\* leaves currentTorrent and currentFile of that session as they are.
\* --------------------------------------------------------------------------
C36_OldRemovalSparesNewSession ==
    [][\A r \in pendingRemovals :
          (currentTorrent # NULL /\ currentTorrent \in clientTorrents /\ RemovalDone(r))
            => /\ currentTorrent' = currentTorrent
               /\ currentFile' = currentFile]_vars

\* --------------------------------------------------------------------------
\* C37: when a select-file follows a tick that ran on another file of the
\* session (the piece that tick published is no piece of the file selected
\* now), the tick that runs next publishes as currentPiece the first piece of
\* the selected file.
\* --------------------------------------------------------------------------
C37_HeadAtStartOfNewFile ==
    [][(/\ lastOp = "selectFile"
        /\ currentTorrent # NULL
        /\ currentFile # NoFile
        /\ bufferInfo[currentTorrent] # NoBufferInfo
        /\ bufferInfo[currentTorrent].currentPiece
               \notin FilePieces(currentFile[1], currentFile[2])
        /\ Tick(100))
       => bufferInfo'[currentTorrent].currentPiece =
              Floor(FileOf(currentFile).offset, PieceLength(currentTorrent))]_vars

\* --------------------------------------------------------------------------
\* C38: a request on the raw endpoint that is answered 416, or 404 because no
\* file is loaded, leaves the read head, the bitrate estimate and the position
\* and time of the last range request as they were and opens no read stream.
\* --------------------------------------------------------------------------
C38_RejectedRequestChangesNothing ==
    [][(lastOp' = "rawRequest" /\ response'.status \in {404, 416})
         => UNCHANGED <<currentPlaybackBytes, estimatedBitrate, lastBytePosition,
                        lastByteTime, bitrateUpdates, stream>>]_vars

\* a range request was answered 416 in a session whose earlier range requests
\* had moved the read head, updated the bitrate estimate and opened a stream
C38_Witness ==
    /\ lastOp = "rawRequest"
    /\ response.status = 416
    /\ lastByteTime > 0
    /\ bitrateUpdates > 0
    /\ estimatedBitrate[1] > 0
    /\ stream # NoStream

\* --------------------------------------------------------------------------
\* Seeking on the remux endpoint: one session of T2 started by torrent:start
\* (its video has 40 MiB and an estimated duration of 1200 s), GET requests
\* with no t, with text that is no number, and with times before, inside, at
\* and beyond the estimated duration, and the events of their children.
\* --------------------------------------------------------------------------
RemuxSeeks ==
    {EmptyToken, JunkToken, NumToken(0 - 5), NumToken(0), NumToken(600),
     NumToken(1200), NumToken(5000)}

NextRemuxSeek ==
    \/ clientTorrents = {} /\ TorrentStart("T2")
    \/ \E p \in pendingAdds : MetadataReady(p)
    \/ \E t \in RemuxSeeks : handleTranscodeSeek("GET", t)
    \/ \E k \in DOMAIN children : ChildStart(k)
    \/ \E k \in DOMAIN children : ChildEnd(k)

SpecRemuxSeek == Init /\ [][NextRemuxSeek]_vars

\* C39: every GET /?t=T on the remux endpoint of a session opens its input
\* stream at a byte offset s of the file, 0 <= s < fileLength.
C39_SeekOffsetInFile ==
    [][\A t \in RemuxSeeks :
          (currentTorrent # NULL /\ currentFile # NoFile /\ handleTranscodeSeek("GET", t))
            => /\ children'[Len(children')].input = "open"
               /\ children'[Len(children')].start >= 0
               /\ children'[Len(children')].start < FileOf(currentFile).length]_vars

\* --------------------------------------------------------------------------
\* C40: while the session streams through the remux endpoint, so that the
\* only range requests on the raw endpoint are those of the duration probe,
\* every tick publishes as currentPiece the piece of the playback time last
\* reported by the player.
\* --------------------------------------------------------------------------
C40_ProbeLeavesReadHead ==
    [][(currentTorrent # NULL /\ currentFile # NoFile /\ useTranscoding /\ Tick(100))
         => bufferInfo'[currentTorrent].currentPiece =
                PieceOfTime(currentPlaybackTime,
                            TickBytesPerSecond(currentTorrent, currentFile))]_vars

====
